---- MODULE Spec2Model ----
(***************************************************************************)
(* A model of articleparser: the Cleaner's tree passes, the Article        *)
(* Extractor's base-tag / top-tag localisation, the asset URL handling,    *)
(* the OpenGraph grouping rule, keyword normalisation, title extraction    *)
(* and the sequencing of Article.parse().                                  *)
(*                                                                         *)
(* The document is a bs4 tree: nodes have an identity (a node id), a tag   *)
(* name, an attribute mapping and an ordered child list.  The memoized     *)
(* link-density annotations live in the attribute mapping, as in the code. *)
(***************************************************************************)
EXTENDS Integers, Sequences, FiniteSets, TLC

VARIABLES
    pc,            \* position of the operation under way
    err,           \* the exception that ended it, or NoErr
    \* the document pipeline
    soup,          \* Cleaner.soup / ArticleExtractor.soup: node id -> node
    config,        \* Config: the thresholds read by the extractor
    base_tag,      \* ArticleExtractor.base_tag (node id, or None)
    top_tag,       \* ArticleExtractor.top_tag (node id, or None)
    \* asset URLs
    url_sources,   \* the page URLs the document offers, by source
    page_url,      \* AssetExtractor.page_url
    video_tags,    \* the <video> tags below base_tag, by their attributes
    links_list,    \* AssetExtractor.links_list
    image_list,    \* AssetExtractor.image_list
    video_list,    \* AssetExtractor.video_list
    \* Article.parse
    step,          \* the number of the step of parse() to run next
    content,       \* Article.content: the fields stored so far
    \* keywords
    keywords,      \* the keywords collected by extract_keywords
    option_order,  \* the order in which list(set(keywords)) yields them
    new_keywords,  \* the list _process_keywords_list returns
    \* OpenGraph
    meta_tags,     \* the <meta property="og:..."> tags of <head>, in document order
    metadata_ogp,  \* the dict extract_opengraph returns
    \* title
    title_sources, \* what the document offers as a title, by source
    title_result,  \* what extract_title returns
    \* pictures
    picture_tag,   \* a <figure> with its <picture>: the <source> tags and the <img>
    picture_result, \* the image item get_pictures makes of it
    \* authors
    author_sources,   \* the byline tags and metadata extract_authors reads
    author_list,   \* what extract_authors returns
    \* JSON-LD
    script_bodies, \* the bodies of the <script type="application/ld+json"> tags
    json_ld_dictlist, \* what extract_json_ld_dictlist returns
    metadata_json_ld, \* what extract_json_ld returns
    \* timestamps
    timestamp_sources, \* what the document offers as timestamps, by source
    timestamps,    \* what extract_timestamps returns
    \* Cleaner.clean
    clean_config,   \* the flags of the Config that Cleaner.clean reads
    stages,        \* the stages clean() has run, in order
    visited,       \* the elements a tree pass has visited, in order
    \* ArticleExtractor: common ancestors
    targets,       \* the tag_list handed to a common-ancestor method
    found_ancestor, \* what the method returns
    survivors,     \* current_tag_list when _get_best_common_ancestor leaves its loop
    \* ArticleExtractor.get_article_text
    article_copy,  \* the tree of copy.copy(self.top_tag) that the method works on
    article_text,  \* ArticleExtractor.article_text
    inline_links_list, \* ArticleExtractor.inline_links_list
    last_call      \* the last call of a method of the extractor: what it scanned

docVars == <<soup, config, base_tag, top_tag>>
urlVars == <<url_sources, page_url, video_tags, links_list, image_list, video_list>>
parseVars == <<step, content>>
keywordVars == <<keywords, option_order, new_keywords>>
ogVars == <<meta_tags, metadata_ogp>>
titleVars == <<title_sources, title_result>>

pictureVars == <<picture_tag, picture_result>>
authorVars == <<author_sources, author_list>>
jsonLdVars == <<script_bodies, json_ld_dictlist, metadata_json_ld>>
timestampVars == <<timestamp_sources, timestamps>>
cleanVars == <<clean_config, stages, visited>>
ancestorVars == <<targets, found_ancestor, survivors>>
textVars == <<article_copy, article_text, inline_links_list, last_call>>
moreVars ==
    <<pictureVars, authorVars, jsonLdVars, timestampVars, cleanVars, ancestorVars,
      textVars>>

vars == <<pc, err, docVars, urlVars, parseVars, keywordVars, ogVars, titleVars, moreVars>>

\* the value of a variable that the operation under way does not use
Idle == <<>>

IdleDoc == soup = Idle /\ config = Idle /\ base_tag = Idle /\ top_tag = Idle

IdleUrl ==
    /\ url_sources = Idle /\ page_url = Idle /\ video_tags = Idle
    /\ links_list = Idle /\ image_list = Idle /\ video_list = Idle

IdleParse == step = Idle /\ content = Idle

IdleKeywords == keywords = Idle /\ option_order = Idle /\ new_keywords = Idle

IdleOg == meta_tags = Idle /\ metadata_ogp = Idle

IdleTitle == title_sources = Idle /\ title_result = Idle

IdlePicture == picture_tag = Idle /\ picture_result = Idle

IdleAuthors == author_sources = Idle /\ author_list = Idle

IdleJsonLd == script_bodies = Idle /\ json_ld_dictlist = Idle /\ metadata_json_ld = Idle

IdleTimestamps == timestamp_sources = Idle /\ timestamps = Idle

IdleClean == clean_config = Idle /\ stages = Idle /\ visited = Idle

IdleAncestor == targets = Idle /\ found_ancestor = Idle /\ survivors = Idle

IdleText ==
    /\ article_copy = Idle /\ article_text = Idle /\ inline_links_list = Idle
    /\ last_call = Idle

IdleMore ==
    /\ IdlePicture /\ IdleAuthors /\ IdleJsonLd /\ IdleTimestamps /\ IdleClean
    /\ IdleAncestor /\ IdleText

\* every group of variables is idle but those named
IdleBut(used) ==
    /\ IF "doc" \in used THEN TRUE ELSE IdleDoc
    /\ IF "url" \in used THEN TRUE ELSE IdleUrl
    /\ IF "parse" \in used THEN TRUE ELSE IdleParse
    /\ IF "keywords" \in used THEN TRUE ELSE IdleKeywords
    /\ IF "og" \in used THEN TRUE ELSE IdleOg
    /\ IF "title" \in used THEN TRUE ELSE IdleTitle
    /\ IF "picture" \in used THEN TRUE ELSE IdlePicture
    /\ IF "authors" \in used THEN TRUE ELSE IdleAuthors
    /\ IF "json_ld" \in used THEN TRUE ELSE IdleJsonLd
    /\ IF "timestamps" \in used THEN TRUE ELSE IdleTimestamps
    /\ IF "clean" \in used THEN TRUE ELSE IdleClean
    /\ IF "ancestor" \in used THEN TRUE ELSE IdleAncestor
    /\ IF "text" \in used THEN TRUE ELSE IdleText

-----------------------------------------------------------------------------
(* Bounds of the model *)

\* number of content nodes (elements and text) below <body> in an input document
MaxContent == 4

-----------------------------------------------------------------------------
(* Generic helpers *)

None == 0
NoErr == "none"


\* str.isspace for the characters of the model
IsSpaceChar(c) == c = " "

RECURSIVE LStrip(_)
LStrip(s) == IF s # <<>> /\ IsSpaceChar(Head(s)) THEN LStrip(Tail(s)) ELSE s

RECURSIVE RStrip(_)
RStrip(s) ==
    IF s # <<>> /\ IsSpaceChar(s[Len(s)]) THEN RStrip(SubSeq(s, 1, Len(s) - 1)) ELSE s

\* str.strip()
Strip(s) == LStrip(RStrip(s))

\* re.fullmatch(r"\s*", s) is not None
AllSpace(s) == \A i \in 1..Len(s) : IsSpaceChar(s[i])

SeqToSet(s) == {s[i] : i \in 1..Len(s)}

InSeq(x, s) == \E i \in 1..Len(s) : s[i] = x

\* list.index(x): the first position of x
IndexOf(x, s) == CHOOSE i \in 1..Len(s) : s[i] = x /\ \A j \in 1..(i - 1) : s[j] # x

RemoveAt(s, i) == SubSeq(s, 1, i - 1) \o SubSeq(s, i + 1, Len(s))


RECURSIVE SelectSeqBy(_, _)
\* [x for x in s if x in keep], order kept
SelectSeqBy(s, keep) ==
    IF s = <<>> THEN <<>>
    ELSE IF Head(s) \in keep THEN <<Head(s)>> \o SelectSeqBy(Tail(s), keep)
         ELSE SelectSeqBy(Tail(s), keep)

-----------------------------------------------------------------------------
(* The document tree (bs4.BeautifulSoup / bs4.element.Tag / NavigableString) *)

\* upper bound on the break elements that can split their parent: each needs
\* a text node on both sides
MaxSplits == (MaxContent - 1) \div 2

\* node ids: the [document] root, <html>, <body>, the content nodes, and two
\* fresh nodes for every split replace_breaks() can make
MaxNodes == 3 + MaxContent + 2 * MaxSplits

NodeIds == 1..MaxNodes

Root == 1
Html == 2
Body == 3

Unused == ""              \* a node id no node has used yet
Decomposed == "#gone"     \* a node destroyed by decompose()
TextName == "#text"       \* a NavigableString

NoAttr == "None"          \* tag.get(attr) of a missing attribute
NoNum == -1               \* a missing numeric annotation
NoDensity == <<-1, 1>>    \* a missing _linkdensity annotation

\* Cleaner._parse_style_string of a missing or empty style attribute: the
\* style as the dict of its declarations, none of them given
NoStyle ==
    [display |-> NoAttr, visibility |-> NoAttr, width |-> NoAttr,
     height |-> NoAttr, opacity |-> NoAttr]

\* tag.attrs: the attributes the modelled code reads or writes.  linkdensity is
\* the float lc / tc, kept as the pair <<lc, tc>> (<<0, 1>> is 0.0)
NoAttrs ==
    [id |-> NoAttr, role |-> NoAttr, itemtype |-> NoAttr,
     hidden |-> NoAttr, style |-> NoStyle, width |-> NoAttr, height |-> NoAttr,
     ld_tc |-> NoNum, ld_lc |-> NoNum, linkdensity |-> NoDensity]

UnusedNode ==
    [name |-> Unused, parent |-> None, contents |-> <<>>, string |-> <<>>,
     attrs |-> NoAttrs]

GoneNode == [UnusedNode EXCEPT !.name = Decomposed]

MkTag(name, parent, contents, attrs) ==
    [name |-> name, parent |-> parent, contents |-> contents, string |-> <<>>,
     attrs |-> attrs]

MkText(parent, string) ==
    [name |-> TextName, parent |-> parent, contents |-> <<>>, string |-> string,
     attrs |-> NoAttrs]

\* isinstance(node, bs4.element.Tag)
IsTag(t, n) == n # None /\ t[n].name \notin {Unused, Decomposed, TextName}

\* isinstance(node, bs4.element.NavigableString)
IsNString(t, n) == n # None /\ t[n].name = TextName

RECURSIVE DescendantsOfList(_, _)
DescendantsOfList(t, kids) ==
    IF kids = <<>> THEN <<>>
    ELSE <<Head(kids)>> \o DescendantsOfList(t, t[Head(kids)].contents)
             \o DescendantsOfList(t, Tail(kids))

\* tag.descendants: every node below the tag, in document order
Descendants(t, n) == DescendantsOfList(t, t[n].contents)

\* tag.find_all(True): every element below the tag, in document order
FindAllTags(t, n) ==
    LET Test(x) == IsTag(t, x) IN SelectSeq(Descendants(t, n), Test)

\* tag.find_all(names)
FindAll(t, n, names) ==
    LET Test(x) == IsTag(t, x) /\ t[x].name \in names
    IN SelectSeq(Descendants(t, n), Test)

\* tag.find_all(recursive=False): the direct child elements
ChildTags(t, n) ==
    LET Test(x) == IsTag(t, x) IN SelectSeq(t[n].contents, Test)

\* soup.find(name): the first match in document order, or None
Find(t, n, names) ==
    LET found == FindAll(t, n, names) IN IF found = <<>> THEN None ELSE found[1]

RECURSIVE Parents(_, _)
\* tag.parents: the ancestors, nearest first, up to the [document] root
Parents(t, n) ==
    IF t[n].parent = None THEN <<>> ELSE <<t[n].parent>> \o Parents(t, t[n].parent)

\* node.previous_sibling / node.next_sibling (None at either end)
PreviousSibling(t, n) ==
    LET kids == t[t[n].parent].contents
        i == IndexOf(n, kids)
    IN IF i = 1 THEN None ELSE kids[i - 1]

NextSibling(t, n) ==
    LET kids == t[t[n].parent].contents
        i == IndexOf(n, kids)
    IN IF i = Len(kids) THEN None ELSE kids[i + 1]

\* tag.decompose(): the node leaves its parent and it and its subtree are destroyed
Decompose(t, n) ==
    LET gone == {n} \cup SeqToSet(Descendants(t, n))
        p == t[n].parent
    IN [x \in NodeIds |->
           IF x \in gone THEN GoneNode
           ELSE IF x = p
                THEN [t[x] EXCEPT !.contents = RemoveAt(@, IndexOf(n, @))]
                ELSE t[x]]

RECURSIVE DecomposeAll(_, _)
\* for tag in tags: tag.decompose() (a tag already destroyed with its parent is left alone)
DecomposeAll(t, tags) ==
    IF tags = <<>> THEN t
    ELSE IF t[Head(tags)].name = Decomposed THEN DecomposeAll(t, Tail(tags))
         ELSE DecomposeAll(Decompose(t, Head(tags)), Tail(tags))

\* the nodes of the tree
Live(t) == {Root} \cup SeqToSet(Descendants(t, Root))

\* the elements of the tree
LiveTags(t) == {n \in Live(t) : IsTag(t, n)}

\* a node id that no node has used: what a newly made Tag gets
FreshIds(t) == {n \in NodeIds : t[n].name = Unused}

-----------------------------------------------------------------------------
(* Cleaner *)

\* Cleaner._is_nonwhitespace_nstring (None gives False)
IsNonwhitespaceNString(t, n) == IsNString(t, n) /\ ~AllSpace(t[n].string)

\* Cleaner._is_whitespace_nstring
IsWhitespaceNString(t, n) == IsNString(t, n) /\ AllSpace(t[n].string)

\* a faulty search, self.soup.body.find("br", recursive=False): only the
\* children of <body> are looked at
FirstBreakOfBody(t) ==
    LET Test(x) == t[x].name = "br"
        found == SelectSeq(ChildTags(t, Body), Test)
    IN IF found = <<>> THEN None ELSE found[1]

\* self.soup.find("br") in replace_breaks
FirstBreak(t) == Find(t, Root, {"br"})

\* the condition of replace_breaks for splitting the parent of the break
SplitCondition(t, br) ==
    /\ IsNonwhitespaceNString(t, PreviousSibling(t, br))
    /\ IsNonwhitespaceNString(t, NextSibling(t, br))

\* right_tag = copy.copy(br.parent); if right_tag.get("id"): del right_tag["id"]
RightTagAttrs(attrs) ==
    IF attrs.id \notin {NoAttr, ""} THEN [attrs EXCEPT !.id = NoAttr] ELSE attrs

\* left_tag = copy.copy(br.parent): the same attributes
LeftTagAttrs(attrs) == attrs

\* The splitting branch of one iteration of replace_breaks: two copies of the
\* parent take the contents left and right of the break, are inserted before
\* and after the parent, and the parent (with the break in it) is decomposed.
\* left and right are the node ids of the two new tags.
SplitParent(t, br, left, right) ==
    LET p == t[br].parent
        gp == t[p].parent
        contents_list == t[p].contents
        br_index == IndexOf(br, contents_list)
        left_contents_list == SubSeq(contents_list, 1, br_index - 1)
        right_contents_list == SubSeq(contents_list, br_index + 1, Len(contents_list))
        p_index == IndexOf(p, t[gp].contents)
    IN [x \in NodeIds |->
           CASE x = left ->
                    MkTag(t[p].name, gp, left_contents_list, LeftTagAttrs(t[p].attrs))
             [] x = right ->
                    MkTag(t[p].name, gp, right_contents_list, RightTagAttrs(t[p].attrs))
             [] x = p \/ x = br -> GoneNode
             [] x = gp ->
                    [t[x] EXCEPT !.contents =
                        SubSeq(@, 1, p_index - 1) \o <<left, right>>
                            \o SubSeq(@, p_index + 1, Len(@))]
             [] InSeq(x, left_contents_list) -> [t[x] EXCEPT !.parent = left]
             [] InSeq(x, right_contents_list) -> [t[x] EXCEPT !.parent = right]
             [] OTHER -> t[x]]

\* settings.IMAGE_AND_MULTIMEDIA_TAGS + settings.EMBEDDED_CONTENT_TAGS
IMAGE_AND_MULTIMEDIA_TAGS == {"area", "audio", "img", "map", "track", "video"}

EMBEDDED_CONTENT_TAGS == {"embed", "iframe", "object", "param", "picture", "source"}

SetAttrTc(t, tag, v) == [t EXCEPT ![tag].attrs.ld_tc = v]

SetAttrLc(t, tag, v) == [t EXCEPT ![tag].attrs.ld_lc = v]

SetAttrDensity(t, tag, d) == [t EXCEPT ![tag].attrs.linkdensity = d]

RECURSIVE GetTotalChars(_, _)
RECURSIVE TotalCharsOfContents(_, _, _)

\* the loop of _get_total_chars over tag.contents: child elements add their
\* total_chars, strings the length of their stripped text
TotalCharsOfContents(t, contents, acc) ==
    IF contents = <<>> THEN [t |-> t, v |-> acc]
    ELSE LET child == Head(contents) IN
         IF IsTag(t, child)
         THEN LET r == GetTotalChars(t, child)
              IN TotalCharsOfContents(r.t, Tail(contents), acc + r.v)
         ELSE IF IsNString(t, child)
              THEN TotalCharsOfContents(t, Tail(contents),
                                        acc + Len(Strip(t[child].string)))
              ELSE TotalCharsOfContents(t, Tail(contents), acc)

\* Cleaner._get_total_chars: memoized in the attribute _ld_tc.  Gives the tree
\* with the annotations written and the value.
GetTotalChars(t, tag) ==
    IF t[tag].attrs.ld_tc # NoNum THEN [t |-> t, v |-> t[tag].attrs.ld_tc]
    ELSE LET r == TotalCharsOfContents(t, t[tag].contents, 0)
         IN [t |-> SetAttrTc(r.t, tag, r.v), v |-> r.v]

RECURSIVE MarkFullyLinked(_, _)
\* the loop of _get_link_chars over the descendants of an anchor: each gets its
\* own total_chars as its link_chars
MarkFullyLinked(t, tags) ==
    IF tags = <<>> THEN t
    ELSE LET r == GetTotalChars(t, Head(tags))
         IN MarkFullyLinked(SetAttrLc(r.t, Head(tags), r.v), Tail(tags))

\* the link_chars of an anchor: its total_chars
AnchorLinkChars(t, tag) ==
    LET r == GetTotalChars(t, tag)
    IN [t |-> MarkFullyLinked(SetAttrLc(r.t, tag, r.v), FindAllTags(r.t, tag)),
        v |-> r.v]

RECURSIVE GetLinkChars(_, _)
RECURSIVE LinkCharsOfChildren(_, _, _)

\* the loop of _get_link_chars over tag.find_all(recursive=False)
LinkCharsOfChildren(t, tags, acc) ==
    IF tags = <<>> THEN [t |-> t, v |-> acc]
    ELSE LET r == GetLinkChars(t, Head(tags))
         IN LinkCharsOfChildren(r.t, Tail(tags), acc + r.v)

\* a faulty _get_link_chars: a non-anchor sums over tag.find_all(True), every
\* descendant element, so that the characters of a nested anchor count twice
GetLinkCharsOfDescendants(t, tag) ==
    IF t[tag].attrs.ld_lc # NoNum THEN [t |-> t, v |-> t[tag].attrs.ld_lc]
    ELSE IF t[tag].name = "a" THEN AnchorLinkChars(t, tag)
    ELSE LET r == LinkCharsOfChildren(t, FindAllTags(t, tag), 0)
         IN [t |-> SetAttrLc(r.t, tag, r.v), v |-> r.v]

\* Cleaner._get_link_chars: memoized in the attribute _ld_lc
GetLinkChars(t, tag) ==
    IF t[tag].attrs.ld_lc # NoNum THEN [t |-> t, v |-> t[tag].attrs.ld_lc]
    ELSE IF t[tag].name = "a" THEN AnchorLinkChars(t, tag)
    ELSE LET r == LinkCharsOfChildren(t, ChildTags(t, tag), 0)
         IN [t |-> SetAttrLc(r.t, tag, r.v), v |-> r.v]

\* float(lc / tc) if tc > 0, else 0.0
Density(lc, tc) == IF tc > 0 THEN <<lc, tc>> ELSE <<0, 1>>

\* Cleaner._get_linkdensity: memoized in the attribute _linkdensity
GetLinkdensityOf(t, tag) ==
    IF t[tag].attrs.linkdensity # NoDensity THEN t
    ELSE LET l == GetLinkChars(t, tag)
             c == GetTotalChars(l.t, tag)
         IN SetAttrDensity(c.t, tag, Density(l.v, c.v))

\* is_empty in Cleaner._decompose_empty
IsEmpty(t, tag) ==
    /\ t[tag].attrs.ld_tc = 0
    /\ FindAll(t, tag, IMAGE_AND_MULTIMEDIA_TAGS \cup EMBEDDED_CONTENT_TAGS) = <<>>
    /\ t[tag].name \notin IMAGE_AND_MULTIMEDIA_TAGS \cup EMBEDDED_CONTENT_TAGS

\* a faulty _decompose_empty that removes nothing
KeepEmpty(t) == t

\* Cleaner._decompose_empty
DecomposeEmpty(t) ==
    LET Test(x) == IsEmpty(t, x)
    IN DecomposeAll(t, SelectSeq(FindAllTags(t, Root), Test))

RECURSIVE LinkdensityOfAll(_, _)
\* for tag in self.soup.find_all(True): self._get_linkdensity(tag)
LinkdensityOfAll(t, tags) ==
    IF tags = <<>> THEN t
    ELSE LinkdensityOfAll(GetLinkdensityOf(t, Head(tags)), Tail(tags))

\* Cleaner.get_linkdensity
GetLinkdensityTree(t) ==
    LET t1 == GetLinkdensityOf(t, Root)
        t2 == DecomposeEmpty(t1)
    IN LinkdensityOfAll(t2, FindAllTags(t2, Root))

-----------------------------------------------------------------------------
(* Config *)

\* Config.LINKDENSITY_UPPERBOUND = 0.75
LINKDENSITY_UPPERBOUND == <<3, 4>>

\* Config.MAX_LEVELS = 5
MAX_LEVELS == 5

\* Config.MIN_TAGS_TO_CHECK = 1
MIN_TAGS_TO_CHECK == 1

\* Config.BASE_TAG_CHARS_RATIO = 0.4
BASE_TAG_CHARS_RATIO == <<2, 5>>

\* Config.ARTICLE_TEXT_CHARS_RATIO = 0.1
ARTICLE_TEXT_CHARS_RATIO == <<1, 10>>

\* Config(): the defaults
DefaultConfig ==
    [LINKDENSITY_UPPERBOUND |-> LINKDENSITY_UPPERBOUND,
     MAX_LEVELS |-> MAX_LEVELS,
     MIN_TAGS_TO_CHECK |-> MIN_TAGS_TO_CHECK,
     BASE_TAG_CHARS_RATIO |-> BASE_TAG_CHARS_RATIO,
     ARTICLE_TEXT_CHARS_RATIO |-> ARTICLE_TEXT_CHARS_RATIO]

\* a / b < c / d and a / b > c / d for fractions with positive denominators
FracLess(x, y) == x[1] * y[2] < y[1] * x[2]

FracGreater(x, y) == x[1] * y[2] > y[1] * x[2]

-----------------------------------------------------------------------------
(* ArticleExtractor: base tag *)

\* Tag.__eq__ / str.__eq__: what `x in list` compares with when x is not the
\* same object: equal name, attributes and contents
RECURSIVE ValueEq(_, _, _)
ValueEq(t, a, b) ==
    \/ a = b
    \/ /\ IsTag(t, a) /\ IsTag(t, b)
       /\ t[a].name = t[b].name
       /\ t[a].attrs = t[b].attrs
       /\ Len(t[a].contents) = Len(t[b].contents)
       /\ \A i \in 1..Len(t[a].contents) :
              ValueEq(t, t[a].contents[i], t[b].contents[i])
    \/ /\ IsNString(t, a) /\ IsNString(t, b)
       /\ t[a].string = t[b].string

\* `x in s` for a list or generator s of page elements
ElemIn(t, x, s) == \E i \in 1..Len(s) : ValueEq(t, x, s[i])

\* [attr='value'], [attr^='value'] and [attr*='value'] on the attribute values
\* of the model: a value starts with itself; an itemtype URL contains the
\* schema.org name it ends with
AttrMatches(op, value, pattern) ==
    /\ value # NoAttr
    /\ CASE op = "=" -> value = pattern
         [] op = "^=" -> value = pattern
         [] op = "*=" -> value = "http://" \o pattern
         [] OTHER -> FALSE

\* one simple selector: a tag name and at most one attribute test
Sel(name, attr, op, value) == [name |-> name, attr |-> attr, op |-> op, value |-> value]

SelMatches(t, n, sel) ==
    /\ t[n].name = sel.name
    /\ CASE sel.attr = "" -> TRUE
         [] sel.attr = "id" -> AttrMatches(sel.op, t[n].attrs.id, sel.value)
         [] sel.attr = "role" -> AttrMatches(sel.op, t[n].attrs.role, sel.value)
         [] sel.attr = "itemtype" ->
                AttrMatches(sel.op, t[n].attrs.itemtype, sel.value)
         [] OTHER -> FALSE

ItemtypeSelectors(name) ==
    {Sel(name, "itemtype", "*=", "schema.org/NewsArticle"),
     Sel(name, "itemtype", "*=", "schema.org/Article"),
     Sel(name, "itemtype", "*=", "schema.org/BlogPosting")}

IdRoleSelectors(name) ==
    {Sel(name, "id", "=", "article"), Sel(name, "id", "=", "main"),
     Sel(name, "role", "^=", "article"), Sel(name, "role", "^=", "main")}

\* ArticleExtractor.BASE_TAG_SELECTORS: each a group of selectors
BASE_TAG_SELECTORS ==
    << ItemtypeSelectors("article"),
       ItemtypeSelectors("main"),
       ItemtypeSelectors("section"),
       ItemtypeSelectors("div"),
       IdRoleSelectors("article"),
       {Sel("article", "", "", "")},
       IdRoleSelectors("main"),
       {Sel("main", "", "", "")},
       IdRoleSelectors("section") \cup IdRoleSelectors("div"),
       {Sel("section", "itemtype", "*=", "schema.org/WebPage"),
        Sel("div", "itemtype", "*=", "schema.org/WebPage")},
       {Sel("body", "", "", "")} >>

\* self.soup.select(selector): the matching elements in document order
Select(t, selector) ==
    LET Test(x) == \E sel \in selector : SelMatches(t, x, sel)
    IN SelectSeq(FindAllTags(t, Root), Test)

RECURSIVE MaxByTc(_, _, _)
\* max(choices, key=lambda x: int(x.get("_ld_tc"))): the first of the largest
MaxByTc(t, choices, best) ==
    IF choices = <<>> THEN best
    ELSE IF t[Head(choices)].attrs.ld_tc > t[best].attrs.ld_tc
         THEN MaxByTc(t, Tail(choices), Head(choices))
         ELSE MaxByTc(t, Tail(choices), best)

\* largest_choice_tc / tc > self.config.BASE_TAG_CHARS_RATIO, for tc > 0
ExceedsRatio(largest_choice_tc, tc, ratio) ==
    FracGreater(<<largest_choice_tc, tc>>, ratio)

Ok(tag) == [tag |-> tag, err |-> NoErr]

Raise(e) == [tag |-> None, err |-> e]

RECURSIVE BaseTagLoop(_, _, _, _, _)
\* the loop of set_base_tag over BASE_TAG_SELECTORS, from the i-th selector on
BaseTagLoop(t, selectors, i, tc, ratio) ==
    IF i > Len(selectors) THEN Raise("ValueError")
    ELSE LET choices == Select(t, selectors[i]) IN
         IF choices = <<>> THEN BaseTagLoop(t, selectors, i + 1, tc, ratio)
         ELSE IF \E j \in 1..Len(choices) : t[choices[j]].attrs.ld_tc = NoNum
              THEN Raise("TypeError")
         ELSE LET largest_choice == MaxByTc(t, Tail(choices), Head(choices))
                  largest_choice_tc == t[largest_choice].attrs.ld_tc
              IN IF tc = 0 THEN Raise("ZeroDivisionError")
                 ELSE IF ExceedsRatio(largest_choice_tc, tc, ratio)
                      THEN Ok(largest_choice)
                      ELSE BaseTagLoop(t, selectors, i + 1, tc, ratio)

\* ArticleExtractor.set_base_tag: the base tag, or the exception raised
SetBaseTagResult(t, cfg) ==
    LET body == Find(t, Root, {"body"}) IN
    IF body = None THEN Raise("AttributeError")
    ELSE IF t[body].attrs.ld_tc = NoNum THEN Raise("TypeError")
    ELSE BaseTagLoop(t, BASE_TAG_SELECTORS, 1, t[body].attrs.ld_tc,
                     cfg.BASE_TAG_CHARS_RATIO)

-----------------------------------------------------------------------------
(* ArticleExtractor: top tag *)

\* ArticleExtractor.TAGS_TO_CHECK_LISTS
TAGS_TO_CHECK_LISTS == << {"p"}, {"span", "ol", "ul"}, {"div", "section"} >>

RECURSIVE LcaLoop(_, _, _)
\* the loop of _get_lowest_common_ancestor over tag.find_parents(True): the
\* first parent that leaves no other tag without it among that tag's parents
LcaLoop(t, parents, my_tag_list) ==
    IF parents = <<>> THEN None
    ELSE LET parent == Head(parents)
             Test(other_tag) == ~ElemIn(t, parent, Parents(t, other_tag))
             rest == SelectSeq(my_tag_list, Test)
         IN IF rest = <<>> THEN parent ELSE LcaLoop(t, Tail(parents), rest)

\* ArticleExtractor._get_lowest_common_ancestor
GetLowestCommonAncestor(t, tag_list) ==
    IF Len(tag_list) = 0 THEN None
    ELSE IF Len(tag_list) = 1 THEN tag_list[1]
    ELSE LcaLoop(t, Parents(t, tag_list[Len(tag_list)]),
                 SubSeq(tag_list, 1, Len(tag_list) - 1))

\* ArticleExtractor._get_ancestral_distance: the number of levels, or -1 for
\* the ValueError
GetAncestralDistance(t, ancestor, tag) ==
    IF tag # ancestor /\ ~ElemIn(t, tag, FindAllTags(t, ancestor)) THEN -1
    ELSE IF tag = ancestor THEN 0
    ELSE IF InSeq(ancestor, Parents(t, tag)) THEN IndexOf(ancestor, Parents(t, tag))
    ELSE -1

\* the targets under a candidate: (candidate is tag) or (candidate in tag.parents)
CandidateTagList(t, candidate, current_tag_list) ==
    LET Test(tag) == candidate = tag \/ ElemIn(t, candidate, Parents(t, tag))
    IN SelectSeq(current_tag_list, Test)

RECURSIVE SumTc(_, _)
\* sum(int(tag.get("_ld_tc")) for tag in tags)
SumTc(t, tags) ==
    IF tags = <<>> THEN 0 ELSE t[Head(tags)].attrs.ld_tc + SumTc(t, Tail(tags))

RECURSIVE BestCandidate(_, _, _, _, _)
\* the loop over the direct child tags in _get_best_common_ancestor: the first
\* candidate of the largest positive sum (None when every sum is 0)
BestCandidate(t, candidates, current_tag_list, best_candidate, best_candidate_sum) ==
    IF candidates = <<>> THEN best_candidate
    ELSE LET candidate_sum ==
                 SumTc(t, CandidateTagList(t, Head(candidates), current_tag_list))
         IN IF candidate_sum > best_candidate_sum
            THEN BestCandidate(t, Tail(candidates), current_tag_list,
                               Head(candidates), candidate_sum)
            ELSE BestCandidate(t, Tail(candidates), current_tag_list,
                               best_candidate, best_candidate_sum)

\* near = all(d <= MAX_LEVELS for d in distances)
Near(t, current, current_tag_list, max_levels) ==
    \A i \in 1..Len(current_tag_list) :
        GetAncestralDistance(t, current, current_tag_list[i]) <= max_levels

RECURSIVE DescendLoop(_, _, _, _, _)
\* the while loop of _get_best_common_ancestor: the surviving targets once
\* current is near enough, or the exception raised.  When no candidate has a
\* positive sum, the first iteration reads best_candidate_tag_list before it
\* is assigned; a later one goes on with current = None.
DescendLoop(t, current, current_tag_list, max_levels, first) ==
    IF \E i \in 1..Len(current_tag_list) :
           GetAncestralDistance(t, current, current_tag_list[i]) = -1
    THEN [tags |-> <<>>, err |-> "ValueError"]
    ELSE IF Near(t, current, current_tag_list, max_levels)
    THEN [tags |-> current_tag_list, err |-> NoErr]
    ELSE LET best_candidate ==
                 BestCandidate(t, ChildTags(t, current), current_tag_list, None, 0)
         IN IF best_candidate = None
            THEN [tags |-> <<>>,
                  err |-> IF first THEN "UnboundLocalError" ELSE "AttributeError"]
            ELSE DescendLoop(t, best_candidate,
                             CandidateTagList(t, best_candidate, current_tag_list),
                             max_levels, FALSE)

\* ArticleExtractor._get_best_common_ancestor
GetBestCommonAncestor(t, tag_list, max_levels) ==
    IF Len(tag_list) = 0 THEN Ok(None)
    ELSE IF Len(tag_list) = 1 THEN Ok(tag_list[1])
    ELSE LET grandparent == GetLowestCommonAncestor(t, tag_list)
             r == DescendLoop(t, grandparent, tag_list, max_levels, TRUE)
         IN IF r.err # NoErr THEN Raise(r.err)
            ELSE Ok(GetLowestCommonAncestor(t, r.tags))

\* float(tag.get("_linkdensity")) < self.config.LINKDENSITY_UPPERBOUND
LowLinkDensity(t, tag, cfg) ==
    FracLess(t[tag].attrs.linkdensity, cfg.LINKDENSITY_UPPERBOUND)

\* the tags set_top_tag goes on with: the low-density ones if there are at
\* least MIN_TAGS_TO_CHECK of them, else all
TagsToCheck(t, found, cfg) ==
    LET Test(tag) == LowLinkDensity(t, tag, cfg)
        tags_to_check_low_ld == SelectSeq(found, Test)
    IN IF Len(tags_to_check_low_ld) >= cfg.MIN_TAGS_TO_CHECK
       THEN tags_to_check_low_ld ELSE found

\* skip_check stays True in set_top_tag unless the tag has a non-whitespace
\* string child or a child tag that is not in tags_to_check
SkipCheck(t, tag, tags_to_check) ==
    ~\E i \in 1..Len(t[tag].contents) :
        LET child == t[tag].contents[i] IN
        \/ IsNonwhitespaceNString(t, child)
        \/ IsTag(t, child) /\ ~ElemIn(t, child, tags_to_check)

RECURSIVE PathNames(_, _)
\* util.get_css_selector_of_soup_tag(element, reduced=True): the tag names
\* from <html> down to the element
PathNames(t, element) ==
    IF t[element].parent = None THEN <<>>
    ELSE PathNames(t, t[element].parent) \o <<t[element].name>>

\* css_counter[parent_css] after the loop
CssCount(t, kept, parent_css) ==
    LET Test(tag) == PathNames(t, t[tag].parent) = parent_css
    IN SumTc(t, SelectSeq(kept, Test))

RECURSIVE MostCommonLoop(_, _, _, _)
\* css_counter.most_common(1)[0][0]: the first inserted of the largest counts
MostCommonLoop(t, kept, rest, best) ==
    IF rest = <<>> THEN best
    ELSE LET key == PathNames(t, t[Head(rest)].parent)
         IN IF CssCount(t, kept, key) > CssCount(t, kept, best)
            THEN MostCommonLoop(t, kept, Tail(rest), key)
            ELSE MostCommonLoop(t, kept, Tail(rest), best)

MostCommon(t, kept) ==
    MostCommonLoop(t, kept, Tail(kept), PathNames(t, t[Head(kept)].parent))

RECURSIVE TopTagLoop(_, _, _, _)
\* the loop of set_top_tag over TAGS_TO_CHECK_LISTS, from the i-th list on
TopTagLoop(t, base, cfg, i) ==
    IF i > Len(TAGS_TO_CHECK_LISTS) THEN Ok(base)
    ELSE LET found == FindAll(t, base, TAGS_TO_CHECK_LISTS[i]) IN
         IF found = <<>> THEN TopTagLoop(t, base, cfg, i + 1)
         ELSE IF \E j \in 1..Len(found) : t[found[j]].attrs.linkdensity = NoDensity
              THEN Raise("TypeError")
         ELSE LET tags_to_check == TagsToCheck(t, found, cfg)
                  Test(tag) == ~SkipCheck(t, tag, tags_to_check)
                  kept == SelectSeq(tags_to_check, Test)
              IN IF kept = <<>> THEN Raise("IndexError")
                 ELSE LET parent_css == MostCommon(t, kept)
                          InGroup(tag) == PathNames(t, t[tag].parent) = parent_css
                          tag_list == SelectSeq(kept, InGroup)
                      IN GetBestCommonAncestor(t, tag_list, cfg.MAX_LEVELS)

\* ArticleExtractor.set_top_tag, given the base tag: the top tag, or the
\* exception raised
SetTopTagResult(t, base, cfg) == TopTagLoop(t, base, cfg, 1)

-----------------------------------------------------------------------------
(* Input documents: what the HTML parser hands over.  The content nodes are
   numbered in document order below <body>. *)

ContentIds(k) == 4..(3 + k)

RECURSIVE AncestorsOrSelf(_, _)
\* the node and its ancestors up to <body>, under the parent function pv
AncestorsOrSelf(pv, n) == IF n = Body THEN {Body} ELSE {n} \cup AncestorsOrSelf(pv, pv[n])

\* the parent functions that number k content nodes in document order
Shapes(k) ==
    {pv \in [ContentIds(k) -> Body..(2 + k)] :
        \A i \in ContentIds(k) :
            IF i = 4 THEN pv[i] = Body ELSE pv[i] \in AncestorsOrSelf(pv, i - 1)}

\* the children of n, in document order
ChildrenIn(pv, k, n) ==
    LET Test(i) == pv[i] = n
    IN SelectSeq([j \in 1..k |-> 3 + j], Test)

\* a kind of content node: a tag name with an id attribute, or a string
Kind(name, id, string) == [name |-> name, id |-> id, string |-> string]

LeafNames == {TextName, "br", "img"}

\* text and empty elements have no children; no two strings are adjacent (the
\* parser, and soup.smooth(), merge them)
WellFormed(pv, k, kinds) ==
    /\ \A i \in ContentIds(k) : pv[i] # Body => kinds[pv[i]].name \notin LeafNames
    /\ \A i, j \in ContentIds(k) :
           (j = i + 1 /\ pv[i] = pv[j]) =>
               ~(kinds[i].name = TextName /\ kinds[j].name = TextName)

\* the tree of a document with k content nodes
BuildSoup(pv, k, kinds) ==
    [n \in NodeIds |->
        CASE n = Root -> MkTag("[document]", None, <<Html>>, NoAttrs)
          [] n = Html -> MkTag("html", Root, <<Body>>, NoAttrs)
          [] n = Body -> MkTag("body", Html, ChildrenIn(pv, k, Body), NoAttrs)
          [] n \in ContentIds(k) ->
                 IF kinds[n].name = TextName THEN MkText(pv[n], kinds[n].string)
                 ELSE MkTag(kinds[n].name, pv[n], ChildrenIn(pv, k, n),
                            [NoAttrs EXCEPT !.id = kinds[n].id])
          [] OTHER -> UnusedNode]

\* t is a document with at most MaxContent content nodes of the given kinds
IsDocument(t, kinds) ==
    \E k \in 0..MaxContent : \E pv \in Shapes(k) : \E ks \in [ContentIds(k) -> kinds] :
        /\ WellFormed(pv, k, ks)
        /\ t = BuildSoup(pv, k, ks)

\* the node kinds of the documents the extractor is run on: stripped text of
\* one or two characters, breaks, images, paragraphs, anchors and <div id="main">
DocKinds ==
    {Kind(TextName, NoAttr, <<"x">>), Kind(TextName, NoAttr, <<"x", "x">>),
     Kind("br", NoAttr, <<>>), Kind("img", NoAttr, <<>>),
     Kind("p", NoAttr, <<>>), Kind("a", NoAttr, <<>>), Kind("div", "main", <<>>)}

\* the configurations the extractor is run with: the defaults, with the
\* base-tag ratio at both ends of its range and a small MAX_LEVELS as well
Configs ==
    {[DefaultConfig EXCEPT !.BASE_TAG_CHARS_RATIO = r, !.MAX_LEVELS = m] :
        r \in {<<0, 1>>, BASE_TAG_CHARS_RATIO, <<1, 1>>}, m \in {1, MAX_LEVELS}}

-----------------------------------------------------------------------------
(* The document pipeline of Article.parse(): Cleaner.replace_breaks,
   Cleaner.get_linkdensity, set_base_tag, set_top_tag *)

InitDoc ==
    /\ IsDocument(soup, DocKinds)
    /\ config \in Configs
    /\ base_tag = None
    /\ top_tag = None
    /\ pc = "replace_breaks"
    /\ err = NoErr
    /\ IdleUrl /\ IdleParse /\ IdleKeywords /\ IdleOg /\ IdleTitle /\ IdleMore

\* one iteration of the loop of replace_breaks that splits the parent
ReplaceBreaksSplit ==
    /\ pc = "replace_breaks"
    /\ FirstBreak(soup) # None
    /\ SplitCondition(soup, FirstBreak(soup))
    /\ LET left == CHOOSE n \in FreshIds(soup) : \A m \in FreshIds(soup) : n <= m
           right == CHOOSE n \in FreshIds(soup) \ {left} :
                        \A m \in FreshIds(soup) \ {left} : n <= m
       IN soup' = SplitParent(soup, FirstBreak(soup), left, right)
    /\ UNCHANGED <<config, base_tag, top_tag, pc, err>>
    /\ UNCHANGED <<urlVars, parseVars, keywordVars, ogVars, titleVars, moreVars>>

\* one iteration of the loop of replace_breaks that deletes the break alone
ReplaceBreaksDelete ==
    /\ pc = "replace_breaks"
    /\ FirstBreak(soup) # None
    /\ ~SplitCondition(soup, FirstBreak(soup))
    /\ soup' = Decompose(soup, FirstBreak(soup))
    /\ UNCHANGED <<config, base_tag, top_tag, pc, err>>
    /\ UNCHANGED <<urlVars, parseVars, keywordVars, ogVars, titleVars, moreVars>>

\* replace_breaks returns when no break is left
ReplaceBreaksReturn ==
    /\ pc = "replace_breaks"
    /\ FirstBreak(soup) = None
    /\ pc' = "get_linkdensity"
    /\ UNCHANGED <<soup, config, base_tag, top_tag, err>>
    /\ UNCHANGED <<urlVars, parseVars, keywordVars, ogVars, titleVars, moreVars>>

\* Cleaner.get_linkdensity
GetLinkdensity ==
    /\ pc = "get_linkdensity"
    /\ soup' = GetLinkdensityTree(soup)
    /\ pc' = "set_base_tag"
    /\ UNCHANGED <<config, base_tag, top_tag, err>>
    /\ UNCHANGED <<urlVars, parseVars, keywordVars, ogVars, titleVars, moreVars>>

\* ArticleExtractor.set_base_tag
SetBaseTag ==
    /\ pc = "set_base_tag"
    /\ LET r == SetBaseTagResult(soup, config)
       IN /\ base_tag' = r.tag
          /\ err' = r.err
          /\ pc' = IF r.err = NoErr THEN "set_top_tag" ELSE "failed"
    /\ UNCHANGED <<soup, config, top_tag>>
    /\ UNCHANGED <<urlVars, parseVars, keywordVars, ogVars, titleVars, moreVars>>

\* ArticleExtractor.set_top_tag
SetTopTag ==
    /\ pc = "set_top_tag"
    /\ LET r == SetTopTagResult(soup, base_tag, config)
       IN /\ top_tag' = r.tag
          /\ err' = r.err
          /\ pc' = IF r.err = NoErr THEN "done" ELSE "failed"
    /\ UNCHANGED <<soup, config, base_tag>>
    /\ UNCHANGED <<urlVars, parseVars, keywordVars, ogVars, titleVars, moreVars>>

NextDoc ==
    \/ ReplaceBreaksSplit
    \/ ReplaceBreaksDelete
    \/ ReplaceBreaksReturn
    \/ GetLinkdensity
    \/ SetBaseTag
    \/ SetTopTag

SpecDoc == InitDoc /\ [][NextDoc]_vars

-----------------------------------------------------------------------------
(* Properties of the document pipeline *)

\* n is a, or a descendant of a
InSubtree(t, n, a) == n = a \/ InSeq(a, Parents(t, n))

\* C1: after set_base_tag() and set_top_tag(), top_tag is base_tag or a
\* descendant of it, and base_tag is the body element (soup.body) or a
\* descendant of it.
C1_TopInBaseInBody ==
    pc = "done" =>
        /\ InSubtree(soup, top_tag, base_tag)
        /\ InSubtree(soup, base_tag, Find(soup, Root, {"body"}))

\* the annotations get_linkdensity leaves on an element
LinkChars(n) == soup[n].attrs.ld_lc
TotalChars(n) == soup[n].attrs.ld_tc
LinkDensity(n) == soup[n].attrs.linkdensity

AfterGetLinkdensity == pc \in {"set_base_tag", "set_top_tag", "done", "failed"}

\* C2: after Cleaner.get_linkdensity(), every remaining element n has
\* 0 <= link_chars(n) <= total_chars(n), a link density link_chars/total_chars
\* in [0,1], and link density 0 when total_chars(n) = 0.
C2_LinkDensityInUnitInterval ==
    AfterGetLinkdensity =>
        \A n \in LiveTags(soup) :
            /\ 0 <= LinkChars(n) /\ LinkChars(n) <= TotalChars(n)
            /\ LinkDensity(n) = Density(LinkChars(n), TotalChars(n))
            /\ ~FracLess(LinkDensity(n), <<0, 1>>)
            /\ ~FracGreater(LinkDensity(n), <<1, 1>>)
            /\ TotalChars(n) = 0 => LinkDensity(n) = <<0, 1>>

\* C2 happens: a tree with an element without characters, an element that is
\* partly linked and one that is fully linked
C2_Witness ==
    /\ AfterGetLinkdensity
    /\ \E n \in LiveTags(soup) : TotalChars(n) = 0
    /\ \E n \in LiveTags(soup) : 0 < LinkChars(n) /\ LinkChars(n) < TotalChars(n)
    /\ \E n \in LiveTags(soup) : 0 < LinkChars(n) /\ LinkChars(n) = TotalChars(n)

\* C5: set_base_tag() ends with base_tag set and never fails, for every
\* annotated document with a body and every ratio in [0,1].
C5_BaseTagAlwaysSet ==
    (pc \in {"set_top_tag", "done", "failed"} /\ Find(soup, Root, {"body"}) # None)
        => base_tag # None

-----------------------------------------------------------------------------
(* Cleaner.replace_breaks on its own, over parents with and without an id *)

\* the node kinds of the documents replace_breaks is run on: text, whitespace,
\* breaks, and <div> without an id, with an empty id and with id="x"
BreakKinds ==
    {Kind(TextName, NoAttr, <<"x">>), Kind(TextName, NoAttr, <<" ">>),
     Kind("br", NoAttr, <<>>),
     Kind("div", NoAttr, <<>>), Kind("div", "", <<>>), Kind("div", "x", <<>>)}

InitBreaks ==
    /\ IsDocument(soup, BreakKinds)
    /\ config = DefaultConfig
    /\ base_tag = None
    /\ top_tag = None
    /\ pc = "replace_breaks"
    /\ err = NoErr
    /\ IdleUrl /\ IdleParse /\ IdleKeywords /\ IdleOg /\ IdleTitle /\ IdleMore

NextBreaks ==
    \/ ReplaceBreaksSplit
    \/ ReplaceBreaksDelete
    \/ ReplaceBreaksReturn

SpecBreaks == InitBreaks /\ [][NextBreaks]_vars

\* the next iteration of replace_breaks finds a break between two
\* non-whitespace strings
AtSplit ==
    /\ pc = "replace_breaks"
    /\ FirstBreak(soup) # None
    /\ SplitCondition(soup, FirstBreak(soup))

\* the attributes without the id
MinusId(attrs) == [attrs EXCEPT !.id = NoAttr]

\* in the tree after, two new elements l and r stand where P stood, l with P's
\* name and attributes and P's children before the break, r with P's name and
\* P's attributes minus id and P's children after the break, and P and the
\* break are gone
SplitInTwo(before, after) ==
    LET br == FirstBreak(before)
        P == before[br].parent
        gp == before[P].parent
        i == IndexOf(P, before[gp].contents)
        kids == before[P].contents
        j == IndexOf(br, kids)
    IN \E l, r \in NodeIds \ Live(before) :
           /\ l # r
           /\ after[gp].contents =
                  SubSeq(before[gp].contents, 1, i - 1) \o <<l, r>>
                      \o SubSeq(before[gp].contents, i + 1, Len(before[gp].contents))
           /\ after[l].name = before[P].name
           /\ after[l].attrs = before[P].attrs
           /\ after[l].contents = SubSeq(kids, 1, j - 1)
           /\ after[r].name = before[P].name
           /\ after[r].attrs = MinusId(before[P].attrs)
           /\ after[r].contents = SubSeq(kids, j + 1, Len(kids))
           /\ \A c \in SeqToSet(after[l].contents) : after[c].parent = l
           /\ \A c \in SeqToSet(after[r].contents) : after[c].parent = r
           /\ P \notin Live(after)
           /\ br \notin Live(after)

\* C9: when a break has a non-whitespace string as both its previous and its
\* next sibling, replace_breaks replaces its parent P, in P's position, by a
\* left copy (P's name, all of P's attributes, P's children before the break)
\* and a right copy (P's name, P's attributes minus id, P's children after the
\* break); P and the break are no longer in the tree.
C9_SplitReplacesParent == [][AtSplit => SplitInTwo(soup, soup')]_vars

-----------------------------------------------------------------------------
(* URLs.  A URL string is the sequence of its lexemes: an optional scheme
   with its colon, an optional "//" authority, a path, an optional "#"
   fragment, and whitespace around it. *)

Lexeme(kind, text) == [kind |-> kind, text |-> text]

\* Python's None, where a string is expected
NullUrl == <<Lexeme("none", "")>>

\* urlunparse: the string of the components
UrlUnparse(c) ==
    (IF c.scheme # "" THEN <<Lexeme("scheme", c.scheme)>> ELSE <<>>)
        \o (IF c.netloc # "" THEN <<Lexeme("netloc", c.netloc)>> ELSE <<>>)
        \o (IF c.path # "" THEN <<Lexeme("path", c.path)>> ELSE <<>>)
        \o (IF c.fragment # "" THEN <<Lexeme("fragment", c.fragment)>> ELSE <<>>)

\* the text of the lexeme of that kind at the head of s, and what follows it
TakeLexeme(s, kind) ==
    IF s # <<>> /\ s[1].kind = kind
    THEN [text |-> s[1].text, rest |-> Tail(s)]
    ELSE [text |-> "", rest |-> s]

\* urllib.parse.urlparse: scheme, then authority, then path, then fragment
UrlParse(s) ==
    LET a == TakeLexeme(s, "scheme")
        b == TakeLexeme(a.rest, "netloc")
        c == TakeLexeme(b.rest, "path")
        d == TakeLexeme(c.rest, "fragment")
    IN [scheme |-> a.text, netloc |-> b.text, path |-> c.text, fragment |-> d.text]

\* str.strip() on a URL string
RECURSIVE StripUrl(_)
StripUrl(s) ==
    IF s = <<>> THEN s
    ELSE IF s[1].kind = "space" THEN StripUrl(Tail(s))
    ELSE IF s[Len(s)].kind = "space" THEN StripUrl(SubSeq(s, 1, Len(s) - 1))
    ELSE s

\* s.startswith("#")
StartsWithHash(s) == s # <<>> /\ s[1].kind = "fragment"

\* a value that Python takes as false: None or the empty string
Falsy(s) == s = NullUrl \/ s = <<>>

\* Python's None, where a string of characters is expected
NullStr == <<"None">>

\* a text that Python takes as false: None or the empty string
FalsyText(text) == text = NullStr \/ text = <<>>

\* urllib.parse.uses_relative and uses_netloc, as far as the schemes at hand go
UsesRelative == {"", "http", "https", "ftp", "file"}
UsesNetloc == {"", "http", "https", "ftp", "file"}

\* the paths at hand that start with "/"
AbsolutePaths == {"/p", "/i.png"}

\* the directory of a base path: "/" for the base paths at hand, "" and "/p"
\* and "/i.png"
DirectoryOf(bpath) == "/"

\* the path of urljoin for a reference with a path: an absolute path stands,
\* a relative one follows the directory of the base path
ResolvePath(bpath, path) ==
    IF path \in AbsolutePaths THEN path ELSE DirectoryOf(bpath) \o path

\* urllib.parse.urljoin(base, url)
UrlJoin(base, url) ==
    IF Falsy(base) THEN url
    ELSE IF Falsy(url) THEN base
    ELSE LET b == UrlParse(base)
             u == UrlParse(url)
             scheme == IF u.scheme = "" THEN b.scheme ELSE u.scheme
         IN IF scheme # b.scheme \/ scheme \notin UsesRelative THEN url
            ELSE IF scheme \in UsesNetloc /\ u.netloc # ""
                 THEN UrlUnparse([u EXCEPT !.scheme = scheme])
            ELSE IF u.path = ""
                 THEN UrlUnparse([scheme |-> scheme, netloc |-> b.netloc,
                                  path |-> b.path, fragment |-> u.fragment])
            ELSE UrlUnparse([scheme |-> scheme, netloc |-> b.netloc,
                             path |-> ResolvePath(b.path, u.path),
                             fragment |-> u.fragment])

\* util.validate_url: django's URLValidator accepts a URL with one of its
\* schemes, "://" and a host, and nothing else
ValidateUrl(url) ==
    /\ url # NullUrl
    /\ \A i \in 1..Len(url) : url[i].kind # "space"
    /\ UrlParse(url).scheme \in {"http", "https", "ftp", "ftps"}
    /\ UrlParse(url).netloc # ""
    /\ UrlUnparse(UrlParse(url)) = url

\* AssetExtractor.URL_SCHEMES
URL_SCHEMES == {"http", "https", ""}

-----------------------------------------------------------------------------
(* AssetExtractor / ArticleExtractor: the URLs of the output record *)

\* the hrefs of the list that pass the test of extract_page_url
ValidHrefs(hrefs) ==
    LET Test(url) ==
            url # NullUrl /\ UrlParse(url).scheme \in URL_SCHEMES /\ ValidateUrl(url)
    IN SelectSeq(hrefs, Test)

\* ArticleExtractor.extract_page_url: the first of the canonical links, the
\* OGP url, the alternate links and the JSON-LD url that validates
ExtractPageUrlResult(sources) ==
    IF ValidHrefs(sources.canonical) # <<>> THEN ValidHrefs(sources.canonical)[1]
    ELSE IF ValidateUrl(sources.ogp) THEN sources.ogp
    ELSE IF ValidHrefs(sources.alternate) # <<>> THEN ValidHrefs(sources.alternate)[1]
    ELSE IF ValidateUrl(sources.json_ld) THEN sources.json_ld
    ELSE NullUrl

\* text.strip() of a link text, a string of characters
StripText(text) == Strip(text)

RECURSIVE ProcessLinkList(_, _)
\* AssetExtractor._process_link_list
ProcessLinkList(list, url) ==
    IF list = <<>> THEN <<>>
    ELSE LET link_item == Head(list)
             href == StripUrl(link_item.url)
             rest == ProcessLinkList(Tail(list), url)
         IN IF Falsy(link_item.url) THEN rest
            ELSE IF StartsWithHash(href) THEN rest
            ELSE IF UrlParse(href).scheme \notin URL_SCHEMES THEN rest
            ELSE <<[url |-> UrlJoin(url, href),
                    text |-> IF FalsyText(link_item.text) THEN NullStr
                             ELSE StripText(link_item.text)]>> \o rest

\* AssetExtractor._make_video_item
MakeVideoItem(src, url) ==
    [src |-> src, page_url |-> url, video_url |-> UrlJoin(url, src),
     video_netloc |-> UrlParse(UrlJoin(url, src)).netloc]

RECURSIVE ProcessVideoTags(_, _)
\* the loop of get_assets over the <video> tags: _process_video_tag makes an
\* item of a tag with a src
ProcessVideoTags(tags, url) ==
    IF tags = <<>> THEN <<>>
    ELSE IF Falsy(Head(tags).src) THEN ProcessVideoTags(Tail(tags), url)
    ELSE <<MakeVideoItem(Head(tags).src, url)>> \o ProcessVideoTags(Tail(tags), url)

\* the paths at hand that end with one of AssetExtractor.IMAGE_MIME_SUFFIXES
ImagePaths == {"/i.png"}

\* AssetExtractor._check_image_mime_type, for a src without a query
CheckImageMimeType(src) == UrlParse(src).path \in ImagePaths

\* the src of a collected image item: that of _process_img_tag, which is
\* None unless it passes _check_image_mime_type
ImageSrcs(srcs) == {NullUrl} \cup {src \in srcs : ~Falsy(src) /\ CheckImageMimeType(src)}

\* the last loop of get_pictures: image_item["src"] = urljoin(self.page_url, src)
JoinImageList(list, url) ==
    [i \in 1..Len(list) |-> [list[i] EXCEPT !.src = UrlJoin(url, list[i].src)]]

\* the URL strings of the input documents
UrlComponents ==
    {c \in [scheme : {"", "http", "data", "mailto"}, netloc : {"", "example.com"},
            path : {"", "/p", "q", "/i.png"}, fragment : {"", "f"}] :
        c.netloc # "" => c.path \in AbsolutePaths \cup {""}}

UrlStrings == {UrlUnparse(c) : c \in UrlComponents}

\* the string with whitespace around it
Padded(s) == <<Lexeme("space", " ")>> \o s \o <<Lexeme("space", " ")>>

PageUrlString ==
    UrlUnparse([scheme |-> "https", netloc |-> "example.com", path |-> "/p",
                fragment |-> ""])

RelativeUrlString == <<Lexeme("path", "/p")>>

\* what a document offers as its URL: canonical links, og:url, alternate
\* links and the JSON-LD url
UrlSources ==
    [canonical : {<<>>, <<PageUrlString>>, <<RelativeUrlString>>},
     ogp : {NullUrl, PageUrlString},
     alternate : {<<>>, <<PageUrlString>>},
     json_ld : {NullUrl, PageUrlString}]

\* anchor.get_text() of the anchors at hand; None is the text of a link item
\* that has no text
LinkTexts == {NullStr, <<>>, <<" ">>, <<" ", "t">>}

InitUrl ==
    /\ pc = "extract_page_url"
    /\ err = NoErr
    /\ url_sources \in UrlSources
    /\ page_url = NullUrl
    /\ \E u \in UrlStrings \cup {NullUrl}, text \in LinkTexts :
           /\ links_list \in {<<[url |-> u, text |-> text]>>,
                              <<[url |-> Padded(u), text |-> text]>>}
           /\ video_tags = <<[src |-> u]>>
    /\ \E src \in ImageSrcs(UrlStrings) : image_list = <<[src |-> src, alt |-> <<"t">>]>>
    /\ video_list = <<>>
    /\ IdleDoc /\ IdleParse /\ IdleKeywords /\ IdleOg /\ IdleTitle /\ IdleMore

\* ArticleExtractor.extract_page_url
ExtractPageUrl ==
    /\ pc = "extract_page_url"
    /\ page_url' = ExtractPageUrlResult(url_sources)
    /\ pc' = "get_pictures"
    /\ UNCHANGED <<err, url_sources, video_tags, links_list, image_list, video_list>>
    /\ UNCHANGED <<docVars, parseVars, keywordVars, ogVars, titleVars, moreVars>>

\* AssetExtractor.get_pictures, from the image items it has collected on
GetPictures ==
    /\ pc = "get_pictures"
    /\ image_list' = JoinImageList(image_list, page_url)
    /\ pc' = "get_assets"
    /\ UNCHANGED <<err, url_sources, page_url, video_tags, links_list, video_list>>
    /\ UNCHANGED <<docVars, parseVars, keywordVars, ogVars, titleVars, moreVars>>

\* AssetExtractor.get_assets
GetAssets ==
    /\ pc = "get_assets"
    /\ video_list' = video_list \o ProcessVideoTags(video_tags, page_url)
    /\ links_list' = ProcessLinkList(links_list, page_url)
    /\ pc' = "done"
    /\ UNCHANGED <<err, url_sources, page_url, video_tags, image_list>>
    /\ UNCHANGED <<docVars, parseVars, keywordVars, ogVars, titleVars, moreVars>>

NextUrl == ExtractPageUrl \/ GetPictures \/ GetAssets

SpecUrl == InitUrl /\ [][NextUrl]_vars

\* the URLs of the output record: the record URL and the URLs of the images,
\* the videos and the links
OutputUrls ==
    {page_url}
        \cup {image_list[i].src : i \in 1..Len(image_list)}
        \cup {video_list[i].video_url : i \in 1..Len(video_list)}
        \cup {links_list[i].url : i \in 1..Len(links_list)}

\* C3: every URL of the output record passes absolute-URL validation or is
\* null, and none starts with "#", also when no page URL was resolved and
\* when the hrefs and srcs are relative.
C3_OutputUrlsValidOrNull ==
    pc = "done" =>
        \A url \in OutputUrls :
            /\ url = NullUrl \/ ValidateUrl(url)
            /\ ~StartsWithHash(url)

-----------------------------------------------------------------------------
(* Article.parse(): the extractors run one after the other, and nothing
   catches what one of them raises *)

\* the steps of parse() after the metadata is collected, in the order of the
\* code, each with the fields of Article.content it stores
ParseSteps ==
    << [call |-> "extract_page_url", fields |-> {"record_url"}],
       [call |-> "Cleaner.clean", fields |-> {}],
       [call |-> "extract_title", fields |-> {"record_title"}],
       [call |-> "extract_timestamps", fields |-> {"timestamps"}],
       [call |-> "site", fields |-> {"site"}],
       [call |-> "extract_language", fields |-> {"record_language"}],
       [call |-> "extract_description", fields |-> {"record_description"}],
       [call |-> "extract_keywords", fields |-> {"record_keywords_list"}],
       [call |-> "categories", fields |-> {"record_categories_list"}],
       [call |-> "set_base_tag", fields |-> {}],
       [call |-> "set_top_tag", fields |-> {}],
       [call |-> "get_pictures", fields |-> {"record_images_list"}],
       [call |-> "get_assets",
        fields |-> {"record_links_list", "record_videos_list",
                    "record_comment_areas_list"}],
       [call |-> "get_documents", fields |-> {"record_documents_list"}],
       [call |-> "get_article_text", fields |-> {"record_content"}],
       [call |-> "extract_authors", fields |-> {"author_list"}] >>

\* the fields of the content record
ContentFields == UNION {ParseSteps[i].fields : i \in 1..Len(ParseSteps)}

\* the exceptions an extractor ends with: those of set_base_tag and
\* set_top_tag, and what the others raise on a document they do not expect
Exceptions ==
    {"ValueError", "ZeroDivisionError", "TypeError", "AttributeError", "IndexError",
     "UnboundLocalError", "KeyError"}

InitParse ==
    /\ pc = "parse"
    /\ err = NoErr
    /\ step = 1
    /\ content = {}
    /\ IdleDoc /\ IdleUrl /\ IdleKeywords /\ IdleOg /\ IdleTitle /\ IdleMore

\* a step of parse() returns: its fields are stored and the next step follows
StepReturns ==
    /\ pc = "parse"
    /\ step <= Len(ParseSteps)
    /\ content' = content \cup ParseSteps[step].fields
    /\ step' = step + 1
    /\ UNCHANGED <<pc, err>>
    /\ UNCHANGED <<docVars, urlVars, keywordVars, ogVars, titleVars, moreVars>>

\* a step of parse() raises: parse() has no handler, the exception leaves it
StepRaises ==
    /\ pc = "parse"
    /\ step <= Len(ParseSteps)
    /\ \E e \in Exceptions : err' = e
    /\ pc' = "raised"
    /\ UNCHANGED <<step, content>>
    /\ UNCHANGED <<docVars, urlVars, keywordVars, ogVars, titleVars, moreVars>>

\* parse() returns None after the last step
ParseReturns ==
    /\ pc = "parse"
    /\ step > Len(ParseSteps)
    /\ pc' = "returned"
    /\ UNCHANGED <<err, step, content>>
    /\ UNCHANGED <<docVars, urlVars, keywordVars, ogVars, titleVars, moreVars>>

NextParse == StepReturns \/ StepRaises \/ ParseReturns

SpecParse == InitParse /\ [][NextParse]_vars

\* C4: when the extraction of one field or asset list fails, every other
\* field and asset list is still extracted and stored: once parse() is over,
\* only the fields of the step that failed are missing from the content record.
C4_FailureIsContained ==
    pc \in {"raised", "returned"} =>
        \A f \in ContentFields :
            f \in content \/ (pc = "raised" /\ f \in ParseSteps[step].fields)

-----------------------------------------------------------------------------
(* ArticleExtractor: keywords.  A string is the sequence of its characters. *)

\* number of characters of a collected keyword
MaxKeywordLen == 3

\* number of keywords collected from one document
MaxKeywords == 3

\* U+FF41, the fullwidth form of "a": NFKC turns it into "a"
FullwidthA == "(fullwidth a)"

IsUpperChar(c) == c = "A"

IsLowerChar(c) == c \in {"a", FullwidthA}

\* str.lower()
Lower(s) == [i \in 1..Len(s) |-> IF s[i] = "A" THEN "a" ELSE s[i]]

\* unicodedata.normalize("NFKC", text)
Nfkc(s) == [i \in 1..Len(s) |-> IF s[i] = FullwidthA THEN "a" ELSE s[i]]

RECURSIVE TitleScan(_, _, _)
\* the loop of str.istitle(): an uppercase character may only follow an
\* uncased one, a lowercase character only a cased one
TitleScan(s, previous_is_cased, cased) ==
    IF s = <<>> THEN cased
    ELSE IF IsUpperChar(Head(s))
         THEN ~previous_is_cased /\ TitleScan(Tail(s), TRUE, TRUE)
    ELSE IF IsLowerChar(Head(s))
         THEN previous_is_cased /\ TitleScan(Tail(s), TRUE, TRUE)
    ELSE TitleScan(Tail(s), FALSE, cased)

\* str.istitle(), str.isupper(), str.islower()
IsTitle(s) == TitleScan(s, FALSE, FALSE)

IsUpper(s) ==
    /\ \E i \in 1..Len(s) : IsUpperChar(s[i])
    /\ \A i \in 1..Len(s) : ~IsLowerChar(s[i])

IsLower(s) ==
    /\ \E i \in 1..Len(s) : IsLowerChar(s[i])
    /\ \A i \in 1..Len(s) : ~IsUpperChar(s[i])

\* ArticleExtractor._process_short_field: strip, then NFKC
ProcessShortField(text) == Nfkc(Strip(text))

\* the order of the characters: their code points
CodePoint(c) ==
    CASE c = " " -> 32 [] c = "#" -> 35 [] c = "." -> 46 [] c = "/" -> 47
      [] c = ":" -> 58 [] c = "A" -> 65 [] c = "a" -> 97 [] c = "c" -> 99
      [] c = "d" -> 100 [] c = "e" -> 101 [] c = "f" -> 102 [] c = "g" -> 103
      [] c = "h" -> 104 [] c = "i" -> 105 [] c = "j" -> 106 [] c = "l" -> 108
      [] c = "m" -> 109 [] c = "n" -> 110 [] c = "o" -> 111 [] c = "p" -> 112
      [] c = "q" -> 113 [] c = "s" -> 115 [] c = "t" -> 116 [] c = "x" -> 120
      [] OTHER -> 65345

RECURSIVE StrLess(_, _)
\* s < t for Python strings
StrLess(s, t) ==
    IF t = <<>> THEN FALSE
    ELSE IF s = <<>> THEN TRUE
    ELSE IF Head(s) # Head(t) THEN CodePoint(Head(s)) < CodePoint(Head(t))
    ELSE StrLess(Tail(s), Tail(t))

RECURSIVE SortedList(_)
\* sorted(...) of strings that differ from one another
SortedList(S) ==
    IF S = {} THEN <<>>
    ELSE LET least == CHOOSE s \in S : \A t \in S \ {s} : StrLess(s, t)
         IN <<least>> \o SortedList(S \ {least})

\* a faulty key: the keyword as it is written, so that two spellings of one
\* keyword are collected apart
KeywordItself(keyword) == keyword

\* the key under which _process_keywords_list collects a keyword
CollectorKey(keyword) == Lower(keyword)

\* collector[keyword.lower()]: the options of a key, in the order of the list
OptionList(list, key) ==
    LET Test(keyword) == CollectorKey(keyword) = key IN SelectSeq(list, Test)

RECURSIVE LastThat(_, _, _)
\* the last option of the list that passes the test, or the one given
LastThat(option_list, Test(_), found) ==
    IF option_list = <<>> THEN found
    ELSE LastThat(Tail(option_list), Test,
                  IF Test(Head(option_list)) THEN Head(option_list) ELSE found)

\* the keyword that stands for its options in new_keywords.  An option that
\* was not found is None; an empty string is as good as not found.
ChosenOption(option_list) ==
    IF Len(option_list) = 1 THEN option_list[1]
    ELSE LET IsTitleOption(o) == IsTitle(o)
             IsUpperOption(o) == ~IsTitle(o) /\ IsUpper(o)
             IsLowerOption(o) == ~IsTitle(o) /\ ~IsUpper(o) /\ IsLower(o)
             title == LastThat(option_list, IsTitleOption, <<>>)
             upper == LastThat(option_list, IsUpperOption, <<>>)
             lower == LastThat(option_list, IsLowerOption, <<>>)
         IN IF title # <<>> THEN title
            ELSE IF upper # <<>> THEN upper
            ELSE IF lower # <<>> THEN lower
            ELSE option_list[1]

\* ArticleExtractor._process_keywords_list, for the order in which
\* list(set(keywords)) yields the processed keywords
ProcessKeywordsList(list) ==
    LET keys == {CollectorKey(list[i]) : i \in 1..Len(list)}
    IN SortedList({ChosenOption(OptionList(list, key)) : key \in keys})

\* the orders in which a set may be listed
Orders(S) ==
    {f \in [1..Cardinality(S) -> S] : \A i, j \in 1..Cardinality(S) : f[i] = f[j] => i = j}

RECURSIVE StringsUpTo(_, _)
\* the strings of at most n characters of the alphabet
StringsUpTo(alphabet, n) ==
    IF n = 0 THEN {<<>>}
    ELSE LET shorter == StringsUpTo(alphabet, n - 1)
         IN shorter \cup {Append(s, c) : s \in shorter, c \in alphabet}

\* the keywords a document may hold: the words of "a" and "A", some with
\* whitespace around or inside them, and one with a fullwidth letter
RawKeywords ==
    (StringsUpTo({"a", "A"}, MaxKeywordLen) \ {<<>>})
        \cup {<<" ", "a">>, <<"A", " ", "a">>, <<"A", " ", "A">>, <<FullwidthA>>}

RECURSIVE SubsetsUpTo(_, _)
\* the subsets of at most n elements
SubsetsUpTo(S, n) ==
    IF n = 0 THEN {{}}
    ELSE LET smaller == SubsetsUpTo(S, n - 1)
         IN smaller \cup {T \cup {x} : T \in smaller, x \in S}

InitKeywords ==
    /\ pc = "extract_keywords"
    /\ err = NoErr
    /\ keywords \in SubsetsUpTo(RawKeywords, MaxKeywords)
    /\ option_order = <<>>
    /\ new_keywords = <<>>
    /\ IdleDoc /\ IdleUrl /\ IdleParse /\ IdleOg /\ IdleTitle /\ IdleMore

\* the end of extract_keywords: the collected keywords go through
\* _process_keywords_list, unless there is none
ExtractKeywords ==
    /\ pc = "extract_keywords"
    /\ \E order \in Orders({ProcessShortField(x) : x \in keywords}) :
           /\ option_order' = order
           /\ new_keywords' = IF keywords = {} THEN <<>> ELSE ProcessKeywordsList(order)
    /\ pc' = "done"
    /\ UNCHANGED <<err, keywords>>
    /\ UNCHANGED <<docVars, urlVars, parseVars, ogVars, titleVars, moreVars>>

NextKeywords == ExtractKeywords

SpecKeywords == InitKeywords /\ [][NextKeywords]_vars

\* the keywords collected that are equal to k under case-insensitive
\* comparison, in the order in which they were seen
Spellings(k) ==
    LET Test(o) == Lower(o) = Lower(k) IN SelectSeq(option_order, Test)

\* the spelling of the priority Title Case > UPPERCASE > lowercase >
\* first seen
Preferred(k) ==
    LET spellings == SeqToSet(Spellings(k)) IN
    IF \E o \in spellings : IsTitle(o) THEN CHOOSE o \in spellings : IsTitle(o)
    ELSE IF \E o \in spellings : IsUpper(o) THEN CHOOSE o \in spellings : IsUpper(o)
    ELSE IF \E o \in spellings : IsLower(o) THEN CHOOSE o \in spellings : IsLower(o)
    ELSE Spellings(k)[1]

-----------------------------------------------------------------------------
(* metadata.extract_opengraph: og:images and og:videos.  A property is the
   sequence of its parts, "og:image:alt" being <<"og", "image", "alt">>; a
   missing content attribute is NoAttr. *)

\* number of <meta property="og:..."> tags in <head>
MaxMetaTags == 3

OgImage == <<"og", "image">>
OgVideo == <<"og", "video">>

\* the og:image:* and og:video:* properties extract_opengraph keeps
StructuredKeys == {"url", "secure_url", "type", "width", "height", "alt"}

RecognizedKeys(anchor) == {Append(anchor, k) : k \in StructuredKeys}

\* soup.select("head meta[property^='...']"): the tags whose property starts
\* with the anchor property, in document order
SelectPrefix(tags, anchor) ==
    LET Test(tag) == Len(tag.property) >= 2 /\ SubSeq(tag.property, 1, 2) = anchor
    IN SelectSeq(tags, Test)

\* an empty dict, and dict.get
EmptyItem == [k \in {} |-> ""]

Get(item, key) == IF key \in DOMAIN item THEN item[key] ELSE NoAttr

\* item[key] = value
Put(item, key, value) ==
    [k \in DOMAIN item \cup {key} |-> IF k = key THEN value ELSE item[k]]

\* a value that Python takes as true: neither None nor the empty string
Truthy(value) == value \notin {NoAttr, ""}

RECURSIVE ItemLoop(_, _, _, _)
\* the loop over the og:image (og:video) tags: the item under construction
\* and the list of the items appended so far
ItemLoop(tags, anchor, item, list) ==
    IF tags = <<>> THEN [item |-> item, list |-> list]
    ELSE LET tag == Head(tags)
             value == tag.content
             prop == tag.property
         IN IF value = NoAttr THEN ItemLoop(Tail(tags), anchor, item, list)
            ELSE IF prop = anchor
                 THEN IF Truthy(Get(item, anchor))
                      THEN ItemLoop(Tail(tags), anchor, Put(EmptyItem, anchor, value),
                                    Append(list, item))
                      ELSE ItemLoop(Tail(tags), anchor, Put(item, anchor, value), list)
            ELSE IF prop \in RecognizedKeys(anchor)
                 THEN ItemLoop(Tail(tags), anchor, Put(item, prop, value), list)
            ELSE ItemLoop(Tail(tags), anchor, item, list)

\* a faulty end of the image loop: the item under construction is dropped
DropLastItem(item, list) == list

\* "append last found image item, if it exists"
AppendLastImageItem(item, list) ==
    IF Truthy(Get(item, OgImage)) THEN Append(list, item) ELSE list

\* a loop that begins at the first og:image tag and so drops the og:image:*
\* tags before it
OgImagesFromFirstAnchor(tags) ==
    LET selected == SelectPrefix(tags, OgImage)
        anchors == {i \in 1..Len(selected) : selected[i].property = OgImage}
        start == IF anchors = {} THEN Len(selected) + 1
                 ELSE CHOOSE i \in anchors : \A j \in anchors : i <= j
        r == ItemLoop(SubSeq(selected, start, Len(selected)), OgImage, EmptyItem, <<>>)
    IN AppendLastImageItem(r.item, r.list)

\* metadata_ogp["og:images"]
OgImages(tags) ==
    LET r == ItemLoop(SelectPrefix(tags, OgImage), OgImage, EmptyItem, <<>>)
    IN AppendLastImageItem(r.item, r.list)

\* metadata_ogp["og:videos"]: nothing follows the loop over the og:video tags
OgVideos(tags) ==
    ItemLoop(SelectPrefix(tags, OgVideo), OgVideo, EmptyItem, <<>>).list

\* the <meta> tags of the input documents
MetaProperties ==
    {OgImage, <<"og", "image", "alt">>, <<"og", "image", "width">>,
     <<"og", "image", "user_generated">>,
     OgVideo, <<"og", "video", "alt">>, <<"og", "video", "tag">>}

MetaContents == {NoAttr, "", "a", "b"}

MetaTags == [property : MetaProperties, content : MetaContents]

RECURSIVE ListsUpTo(_, _)
\* the lists of at most n elements of S
ListsUpTo(S, n) ==
    IF n = 0 THEN {<<>>}
    ELSE LET shorter == ListsUpTo(S, n - 1)
         IN shorter \cup {Append(l, x) : l \in shorter, x \in S}

InitOg ==
    /\ pc = "extract_opengraph"
    /\ err = NoErr
    /\ meta_tags \in ListsUpTo(MetaTags, MaxMetaTags)
    /\ metadata_ogp = EmptyItem
    /\ IdleDoc /\ IdleUrl /\ IdleParse /\ IdleKeywords /\ IdleTitle /\ IdleMore

\* metadata.extract_opengraph, as far as og:images and og:videos go
ExtractOpengraph ==
    /\ pc = "extract_opengraph"
    /\ metadata_ogp' = [images |-> OgImages(meta_tags), videos |-> OgVideos(meta_tags)]
    /\ pc' = "done"
    /\ UNCHANGED <<err, meta_tags>>
    /\ UNCHANGED <<docVars, urlVars, parseVars, keywordVars, titleVars, moreVars>>

NextOg == ExtractOpengraph

SpecOg == InitOg /\ [][NextOg]_vars

\* the positions in meta_tags of the tags that pass the test, in document order
Positions(Test(_)) ==
    LET Keep(i) == Test(meta_tags[i])
    IN SelectSeq([i \in 1..Len(meta_tags) |-> i], Keep)

\* the anchor tags, and those among them with a non-empty content
IsAnchor(tag, anchor) == tag.property = anchor

HasContent(tag) == Truthy(tag.content)

\* the position after the k-th of the positions, or the end of meta_tags
NextOf(positions, k) ==
    IF k < Len(positions) THEN positions[k + 1] ELSE Len(meta_tags) + 1

\* the positions in from..to of the tags with that property and a content
ValuesOf(prop, from, to) ==
    {j \in from..to : meta_tags[j].property = prop /\ meta_tags[j].content # NoAttr}

Last(S) == CHOOSE j \in S : \A i \in S : i <= j

EarlyValues(to) ==
    {j \in 1..(to - 1) :
        meta_tags[j].property \in RecognizedKeys(OgImage) /\ meta_tags[j].content # NoAttr}

\* C18 as stated: the og:image:* tags before the first og:image anchor tag
\* are dropped: an item of og:images holds the value of such a tag for its
\* property only if a tag after the anchor gives that value too
C18_EarlyValuesDropped ==
    pc = "done" =>
        LET IsImageAnchor(tag) == IsAnchor(tag, OgImage)
            anchors == Positions(IsImageAnchor)
            items == metadata_ogp.images
        IN anchors # <<>> =>
               \A j \in EarlyValues(anchors[1]) : \A k \in 1..Len(items) :
                   Get(items[k], meta_tags[j].property) = meta_tags[j].content =>
                       \E i \in (anchors[1] + 1)..Len(meta_tags) :
                           /\ meta_tags[i].property = meta_tags[j].property
                           /\ meta_tags[i].content = meta_tags[j].content

\* C18: the og:image:* tags before the first og:image anchor tag with a
\* non-empty content are attached to the first item of og:images: it holds
\* for the property of each of them the last value given before the next
\* og:image tag with a content, so the value of the tag itself unless a
\* later one replaces it; without such an anchor og:images is empty
C18_EarlyValuesInFirstItem ==
    pc = "done" =>
        LET IsImageAnchor(tag) == IsAnchor(tag, OgImage) /\ HasContent(tag)
            IsClosing(tag) == IsAnchor(tag, OgImage) /\ tag.content # NoAttr
            anchors == Positions(IsImageAnchor)
            closing == {i \in (anchors[1] + 1)..Len(meta_tags) : IsClosing(meta_tags[i])}
            close == IF closing = {} THEN Len(meta_tags) + 1
                     ELSE CHOOSE i \in closing : \A j \in closing : i <= j
            items == metadata_ogp.images
        IN IF anchors = <<>> THEN items = <<>>
           ELSE /\ Len(items) >= 1
                /\ \A j \in EarlyValues(anchors[1]) :
                       Get(items[1], meta_tags[j].property)
                           = meta_tags[Last(ValuesOf(meta_tags[j].property, 1, close - 1))].content

\* C18 happens: [og:image:alt=a, og:image=b] gives [{og:image: b,
\* og:image:alt: a}]
C18_Witness ==
    /\ pc = "done"
    /\ meta_tags = << [property |-> <<"og", "image", "alt">>, content |-> "a"],
                      [property |-> OgImage, content |-> "b"] >>
    /\ metadata_ogp.images =
           << Put(Put(EmptyItem, OgImage, "b"), <<"og", "image", "alt">>, "a") >>

\* C8: og:videos has as many items as there are og:video anchor tags that
\* carry content, in document order, each with the og:video:* values that
\* follow it up to the next anchor.
C8_OneItemPerVideoAnchor ==
    pc = "done" =>
        LET IsVideoAnchor(tag) == IsAnchor(tag, OgVideo) /\ HasContent(tag)
            anchors == Positions(IsVideoAnchor)
            items == metadata_ogp.videos
        IN /\ Len(items) = Len(anchors)
           /\ \A k \in 1..Len(anchors) :
                  Get(items[k], OgVideo) = meta_tags[anchors[k]].content

-----------------------------------------------------------------------------
(* ArticleExtractor.extract_title *)

\* the separators of TITLE_REGEX: [-|]
IsSeparatorChar(c) == c \in {"-", "|"}

\* the first position from i on that holds no whitespace (Len(s) + 1 if none)
RECURSIVE SkipSpace(_, _)
SkipSpace(s, i) ==
    IF i <= Len(s) /\ IsSpaceChar(s[i]) THEN SkipSpace(s, i + 1) ELSE i

\* where a match of TITLE_REGEX, \s+[-|]\s+, that starts at i ends: the
\* position after it, or 0 when there is no match at i
MatchEnd(s, i) ==
    LET j == SkipSpace(s, i) IN
    IF /\ j > i
       /\ j <= Len(s) /\ IsSeparatorChar(s[j])
       /\ j + 1 <= Len(s) /\ IsSpaceChar(s[j + 1])
    THEN SkipSpace(s, j + 1)
    ELSE 0

RECURSIVE ReSplit(_, _, _)
\* re.split(TITLE_REGEX, title): the pieces between the matches, found from
\* the left
ReSplit(s, i, piece) ==
    IF i > Len(s) THEN <<piece>>
    ELSE IF MatchEnd(s, i) > 0 THEN <<piece>> \o ReSplit(s, MatchEnd(s, i), <<>>)
    ELSE ReSplit(s, i + 1, Append(piece, s[i]))

\* [x.strip() for x in matchlist if len(x.strip()) > 0]
StrippedPieces(matchlist) ==
    LET NonEmpty(x) == Len(Strip(x)) > 0
        kept == SelectSeq(matchlist, NonEmpty)
    IN [i \in 1..Len(kept) |-> Strip(kept[i])]

\* a faulty choice of the piece: the first one
FirstSegment(matchlist) == matchlist[1]

RECURSIVE LongestFrom(_, _)
\* the loop of max(matchlist, key=len): a later piece wins only if it is longer
LongestFrom(matchlist, best) ==
    IF matchlist = <<>> THEN best
    ELSE LongestFrom(Tail(matchlist),
                     IF Len(Head(matchlist)) > Len(best) THEN Head(matchlist) ELSE best)

\* max(matchlist, key=len)
LongestSegment(matchlist) == LongestFrom(Tail(matchlist), Head(matchlist))

TitleResult(title, method) == [title |-> title, method |-> method, err |-> NoErr]

TitleRaises(e) == [title |-> NullStr, method |-> NullStr, err |-> e]

\* the end of extract_title: the title is taken from the <title> tag
TitleFromTitleTag(title_tag, clean) ==
    IF ~title_tag.found THEN TitleResult(NullStr, NullStr)
    ELSE IF title_tag.string = NullStr THEN TitleRaises("AttributeError")
    ELSE LET title == Strip(title_tag.string)
             matchlist == StrippedPieces(ReSplit(title, 1, <<>>))
         IN IF ~clean THEN TitleResult(ProcessShortField(title), <<"title">>)
            ELSE IF Len(matchlist) = 0 THEN TitleResult(NullStr, NullStr)
            ELSE TitleResult(ProcessShortField(LongestSegment(matchlist)),
                             <<"title_cleaned">>)

\* the <h1> tags that one of h1[id*='title'], h1[id*='headline'],
\* h1[class*='title'], h1[class*='headline'] selects, the first selector that
\* selects any deciding
MarkedH1(h1_list) ==
    LET ById(h) == h.id_or_class = "id" 
        ByClass(h) == h.id_or_class = "class"
    IN IF SelectSeq(h1_list, ById) # <<>> THEN SelectSeq(h1_list, ById)
       ELSE SelectSeq(h1_list, ByClass)

\* the first truthy headline among the itemprop="headline" elements
TruthyHeadlines(values) ==
    LET Test(v) == v # NullStr /\ v # <<>> IN SelectSeq(values, Test)

\* ArticleExtractor.extract_title
ExtractTitleResult(s) ==
    IF s.json_ld_headline # NullStr
    THEN TitleResult(ProcessShortField(s.json_ld_headline), <<"json_ld_headline">>)
    ELSE IF s.json_ld_name # NullStr
    THEN TitleResult(ProcessShortField(s.json_ld_name), <<"json_ld_name">>)
    ELSE IF s.og_title # NullStr
    THEN TitleResult(ProcessShortField(s.og_title), <<"ogp">>)
    ELSE IF TruthyHeadlines(s.itemprop_headline) # <<>>
    THEN TitleResult(ProcessShortField(TruthyHeadlines(s.itemprop_headline)[1]),
                     <<"itemprop_headline">>)
    ELSE IF Len(s.h1_list) = 1 /\ Len(Strip(s.h1_list[1].text)) > 0
    THEN TitleResult(ProcessShortField(Strip(s.h1_list[1].text)), <<"h1">>)
    ELSE IF Len(s.h1_list) > 1 /\ MarkedH1(s.h1_list) # <<>>
    THEN TitleResult(ProcessShortField(MarkedH1(s.h1_list)[1].text),
                     <<"h1_title_headline">>)
    ELSE TitleFromTitleTag(s.title_tag, s.clean)

BigStory == <<"B", "i", "g", " ", "S", "t", "o", "r", "y">>

MyNewsSite == <<"M", "y", " ", "N", "e", "w", "s", " ", "S", "i", "t", "e">>

Ab == <<"A", "b">>

\* the texts of the <title> tags of the input documents: one segment, or two
\* around a dash or a bar with and without whitespace
TitleSegments == {BigStory, MyNewsSite, Ab}

TitleSeparators ==
    {<<" ", "-", " ">>, <<" ", "|", " ">>, <<"-">>, <<" ", "-">>,
     <<" ", " ", "|", " ", " ">>}

TitleStrings ==
    TitleSegments
        \cup {a \o sep \o b : a \in TitleSegments, sep \in TitleSeparators,
                              b \in TitleSegments}

H1(text, id_or_class) == [text |-> text, id_or_class |-> id_or_class]

\* what the input documents offer as a title
TitleSources ==
    [json_ld_headline : {NullStr, Ab},
     json_ld_name : {NullStr, Ab},
     og_title : {NullStr, <<" ">> \o Ab},
     itemprop_headline : {<<>>, << <<>> >>, <<Ab>>},
     h1_list : {<<>>, <<H1(Ab, "no")>>, <<H1(<<" ">>, "no")>>,
                <<H1(Ab, "no"), H1(BigStory, "no")>>,
                <<H1(Ab, "no"), H1(BigStory, "class")>>,
                <<H1(Ab, "class"), H1(BigStory, "id")>>},
     title_tag : {[found |-> FALSE, string |-> NullStr],
                  [found |-> TRUE, string |-> NullStr]}
                     \cup {[found |-> TRUE, string |-> t] : t \in TitleStrings},
     clean : BOOLEAN]

InitTitle ==
    /\ pc = "extract_title"
    /\ err = NoErr
    /\ title_sources \in TitleSources
    /\ title_result = TitleResult(NullStr, NullStr)
    /\ IdleDoc /\ IdleUrl /\ IdleParse /\ IdleKeywords /\ IdleOg /\ IdleMore

\* ArticleExtractor.extract_title
ExtractTitle ==
    /\ pc = "extract_title"
    /\ title_result' = ExtractTitleResult(title_sources)
    /\ err' = ExtractTitleResult(title_sources).err
    /\ pc' = IF ExtractTitleResult(title_sources).err = NoErr THEN "done" ELSE "failed"
    /\ UNCHANGED title_sources
    /\ UNCHANGED <<docVars, urlVars, parseVars, keywordVars, ogVars, moreVars>>

NextTitle == ExtractTitle

SpecTitle == InitTitle /\ [][NextTitle]_vars

\* the document whose <title> is 'Big Story - My News Site' and which has no
\* JSON-LD headline or name, no OGP title, no itemprop headline and no <h1>
BigStoryDocument ==
    /\ title_sources.title_tag =
           [found |-> TRUE, string |-> BigStory \o <<" ", "-", " ">> \o MyNewsSite]
    /\ title_sources.json_ld_headline = NullStr
    /\ title_sources.json_ld_name = NullStr
    /\ title_sources.og_title = NullStr
    /\ title_sources.itemprop_headline = <<>>
    /\ title_sources.h1_list = <<>>
    /\ title_sources.clean

\* C10: for the <title> 'Big Story - My News Site' and no other source of a
\* title, extract_title(clean=True) returns 'Big Story', the longest of the
\* segments around the whitespace-delimited '-' or '|'.
C10_ReturnsBigStory ==
    (pc = "done" /\ BigStoryDocument) => title_result.title = BigStory

\* C10, amended: for that document extract_title(clean=True) returns
\* 'My News Site', the longest of the segments 'Big Story' and 'My News Site',
\* by the method "title_cleaned".
C10_ReturnsLongestSegment ==
    (pc = "done" /\ BigStoryDocument) =>
        /\ title_result.title = MyNewsSite
        /\ title_result.method = <<"title_cleaned">>
        /\ \A segment \in {BigStory, MyNewsSite} :
               Len(segment) <= Len(title_result.title)

\* C10 happens: the title of that document has been extracted
C10_Witness ==
    /\ pc = "done"
    /\ BigStoryDocument
    /\ title_result.method = <<"title_cleaned">>

-----------------------------------------------------------------------------
(* AssetExtractor: the image of a <figure> with a <picture>.  A <source> tag
   is the record of its type, media, srcset and data-srcset attributes; a
   srcset is the sequence of its candidates, each a URL with the amount and
   the letter of its descriptor ("" for a candidate without descriptor); a
   media attribute is the sequence of its "(feature: Npx)" parts.  A missing
   srcset or media attribute is the empty sequence: the code takes None and
   "" alike. *)

\* number of <source> tags in a <picture>
MaxSources == 2

\* AssetExtractor.IMAGE_MIME_TYPES
IMAGE_MIME_TYPES ==
    <<"image/webp", "image/jpeg", "image/png", "image/gif", "image/avif", "image/apng">>

\* AssetExtractor._parse_media_string: the pixels of the first min-width and
\* of the first max-width feature, NoNum for None
ParseMediaString(media) ==
    LET Pixels(name) ==
            LET at == {i \in 1..Len(media) : media[i].name = name}
            IN IF at = {} THEN NoNum
               ELSE media[CHOOSE i \in at : \A j \in at : i <= j].px
    IN IF media = <<>> THEN <<NoNum, NoNum>>
       ELSE <<Pixels("min-width"), Pixels("max-width")>>

\* AssetExtractor._parse_srcset_string: the (amount, URL) pairs of the width
\* descriptors and of the pixel density descriptors; a candidate without
\* descriptor has the density 1.  The lists are kept as sets:
\* _process_sources_in_picture_tag goes through list(set(...)).
ParseSrcsetString(srcset) ==
    IF srcset = <<>> THEN [w |-> {}, x |-> {}]
    ELSE LET items == {srcset[i] : i \in 1..Len(srcset)}
         IN [w |-> {<<c.amt, c.url>> : c \in {d \in items : d.modifier = "w"}},
             x |-> {<<c.amt, c.url>> : c \in {d \in items : d.modifier = "x"}}
                     \cup {<<1, c.url>> : c \in {d \in items : d.modifier = ""}}]

\* AssetExtractor._get_best_src_from_srcset_dict: the URL of the largest
\* width, else of the largest density, else None; among equal amounts the
\* order of list(set(...)) decides, so every one of them is a possible result
BestSrcs(srcset_dict) ==
    LET Largest(S) == {p[2] : p \in {q \in S : \A r \in S : r[1] <= q[1]}}
    IN IF srcset_dict.w # {} THEN Largest(srcset_dict.w)
       ELSE IF srcset_dict.x # {} THEN Largest(srcset_dict.x)
       ELSE {NullUrl}

\* "remove items that have too small widths"
RemoveSmallWidths(srcset_dict) ==
    [srcset_dict EXCEPT !.w = {p \in @ : p[1] > 1}]

\* Source(mime_type, min_pixels, max_pixels)
SourceDesc(source) ==
    [mime_type |-> source.type,
     min_pixels |-> ParseMediaString(source.media)[1],
     max_pixels |-> ParseMediaString(source.media)[2]]

RECURSIVE CollectSources(_, _)
\* the first loop of _process_sources_in_picture_tag: sources_dict, as the
\* sequence of its entries in insertion order
CollectSources(source_list, sources_dict) ==
    IF source_list = <<>> THEN sources_dict
    ELSE LET source == Head(source_list)
             a == ParseSrcsetString(source.srcset)
             b == ParseSrcsetString(source.data_srcset)
             source_srcset_dict == [w |-> a.w \cup b.w, x |-> a.x \cup b.x]
             source_desc == SourceDesc(source)
             at == {i \in 1..Len(sources_dict) : sources_dict[i].desc = source_desc}
         IN IF source_srcset_dict = [w |-> {}, x |-> {}]
            THEN CollectSources(Tail(source_list), sources_dict)
            ELSE IF at = {}
            THEN CollectSources(Tail(source_list),
                     Append(sources_dict,
                            [desc |-> source_desc, srcset_dict |-> source_srcset_dict]))
            ELSE CollectSources(Tail(source_list),
                     [i \in 1..Len(sources_dict) |->
                         IF i \in at
                         THEN [sources_dict[i] EXCEPT
                                  !.srcset_dict.w = @ \cup source_srcset_dict.w,
                                  !.srcset_dict.x = @ \cup source_srcset_dict.x]
                         ELSE sources_dict[i]])

\* the second loop: every entry of sources_dict with one of its best_src
BestSrcChoices(sources_dict) ==
    {entries \in [1..Len(sources_dict) ->
                     [desc : {sources_dict[i].desc : i \in 1..Len(sources_dict)},
                      best_src : UNION {BestSrcs(RemoveSmallWidths(sources_dict[i].srcset_dict)) :
                                           i \in 1..Len(sources_dict)}]] :
        \A i \in 1..Len(sources_dict) :
            /\ entries[i].desc = sources_dict[i].desc
            /\ entries[i].best_src \in
                   BestSrcs(RemoveSmallWidths(sources_dict[i].srcset_dict))}

\* max(d, key): the first of the entries with the largest key
FirstLargest(entries, Key(_)) ==
    entries[CHOOSE i \in 1..Len(entries) :
                /\ \A j \in 1..Len(entries) : Key(entries[j]) <= Key(entries[i])
                /\ \A j \in 1..(i - 1) : Key(entries[j]) < Key(entries[i])]

\* {"source_src": url}, and the None of a function that ends without a
\* return statement
SourceDict(url) == [is_none |-> FALSE, source_src |-> url]
ReturnsNone == [is_none |-> TRUE, source_src |-> NullUrl]

\* a faulty selection: the first source in document order, whatever its type
FirstSourceWhateverType(sources_dict, mime_types) ==
    SourceDict(sources_dict[1].best_src)

RECURSIVE SelectByMimeType(_, _)
\* the last loop of _process_sources_in_picture_tag, over
\* IMAGE_MIME_TYPES + [None]: the source of the first type that has a source
\* with a best_src, by the larger min_pixels, else the larger max_pixels
SelectByMimeType(sources_dict, mime_types) ==
    IF mime_types = <<>> THEN ReturnsNone
    ELSE LET OfType(e) == e.desc.mime_type = Head(mime_types)
             HasMin(e) == e.desc.min_pixels # NoNum
             HasMax(e) == e.desc.max_pixels # NoNum
             MinPixels(e) == e.desc.min_pixels
             MaxPixels(e) == e.desc.max_pixels
             filtered_sources_dict == SelectSeq(sources_dict, OfType)
             min_pixels_sources_dict == SelectSeq(filtered_sources_dict, HasMin)
             max_pixels_sources_dict == SelectSeq(filtered_sources_dict, HasMax)
             next == SelectByMimeType(sources_dict, Tail(mime_types))
         IN IF filtered_sources_dict = <<>> THEN next
            ELSE IF Len(filtered_sources_dict) = 1
            THEN IF ~Falsy(filtered_sources_dict[1].best_src)
                 THEN SourceDict(filtered_sources_dict[1].best_src)
                 ELSE next
            ELSE IF /\ min_pixels_sources_dict # <<>>
                    /\ ~Falsy(FirstLargest(min_pixels_sources_dict, MinPixels).best_src)
            THEN SourceDict(FirstLargest(min_pixels_sources_dict, MinPixels).best_src)
            ELSE IF /\ max_pixels_sources_dict # <<>>
                    /\ ~Falsy(FirstLargest(max_pixels_sources_dict, MaxPixels).best_src)
            THEN SourceDict(FirstLargest(max_pixels_sources_dict, MaxPixels).best_src)
            ELSE next

\* AssetExtractor._process_sources_in_picture_tag: what it may return for
\* the <source> children of a <picture>
ProcessSourcesInPictureTag(source_list) ==
    LET Wanted(e) ==
            e.desc.mime_type = NoAttr \/ InSeq(e.desc.mime_type, IMAGE_MIME_TYPES)
    IN IF source_list = <<>> THEN {SourceDict(NullUrl)}
       ELSE IF CollectSources(source_list, <<>>) = <<>> THEN {SourceDict(NullUrl)}
       ELSE {IF SelectSeq(entries, Wanted) = <<>> THEN SourceDict(NullUrl)
             ELSE SelectByMimeType(SelectSeq(entries, Wanted),
                                   Append(IMAGE_MIME_TYPES, NoAttr)) :
                entries \in BestSrcChoices(CollectSources(source_list, <<>>))}

\* AssetExtractor._process_img_tag, for an <img> with no srcset and no
\* data-src attribute
ProcessImgTag(img) ==
    IF Falsy(img.src) \/ ~CheckImageMimeType(img.src)
    THEN [img_src |-> NullUrl, img_alt |-> NullStr]
    ELSE [img_src |-> img.src,
          img_alt |-> IF FalsyText(img.alt) \/ Strip(img.alt) = <<>> THEN NullStr
                      ELSE Strip(img.alt)]

\* AssetExtractor._process_picture_tag: {**img_dict, **source_dict}, which
\* raises TypeError when source_dict is None
ProcessPictureTag(img, source_dict) ==
    IF source_dict = ReturnsNone THEN Raise("TypeError")
    ELSE Ok([img_src |-> ProcessImgTag(img).img_src,
             img_alt |-> ProcessImgTag(img).img_alt,
             source_src |-> source_dict.source_src])

\* the image items get_pictures makes of a <figure> without <figcaption>
\* that holds a <picture>: _process_figure_tag, the append of get_pictures
\* and its urljoin
FigureItems(picture_dict, url) ==
    IF Falsy(picture_dict.source_src) /\ Falsy(picture_dict.img_src)
           /\ FalsyText(picture_dict.img_alt)
    THEN <<>>
    ELSE JoinImageList(
             <<[src |-> IF ~Falsy(picture_dict.source_src) THEN picture_dict.source_src
                        ELSE picture_dict.img_src,
                alt |-> picture_dict.img_alt]>>, url)

\* the URLs and descriptors of the srcset attributes at hand
SourceUrlA == <<Lexeme("path", "/p")>>
SourceUrlB == <<Lexeme("path", "q")>>

Candidate(url, amt, modifier) == [url |-> url, amt |-> amt, modifier |-> modifier]

Srcsets ==
    {<<>>,
     <<Candidate(SourceUrlA, 100, "w")>>,
     <<Candidate(SourceUrlB, 1, "w")>>,
     <<Candidate(SourceUrlA, 2, "x"), Candidate(SourceUrlB, 2, "x")>>}

Feature(name, px) == [name |-> name, px |-> px]

Medias ==
    {<<>>, <<Feature("min-width", 100)>>, <<Feature("max-width", 500)>>,
     <<Feature("min-width", 200), Feature("max-width", 500)>>}

SourceTags ==
    [type : {"image/webp", "image/jpeg", "image/svg+xml", NoAttr},
     media : Medias, srcset : Srcsets, data_srcset : {<<>>}]

ImgTag == [src |-> <<Lexeme("path", "/i.png")>>, alt |-> <<"t">>]

InitPicture ==
    /\ pc = "get_pictures"
    /\ err = NoErr
    /\ picture_tag \in [sources : ListsUpTo(SourceTags, MaxSources), img : {ImgTag}]
    /\ picture_result = <<>>
    /\ page_url \in {NullUrl, PageUrlString}
    /\ url_sources = Idle /\ video_tags = Idle /\ links_list = Idle
    /\ image_list = Idle /\ video_list = Idle
    /\ IdleBut({"picture", "url"})

\* AssetExtractor.get_pictures on a <figure> with a <picture>
GetFigurePicture ==
    /\ pc = "get_pictures"
    /\ \E source_dict \in ProcessSourcesInPictureTag(picture_tag.sources) :
           LET r == ProcessPictureTag(picture_tag.img, source_dict)
           IN /\ err' = r.err
              /\ picture_result' =
                     IF r.err = NoErr THEN FigureItems(r.tag, page_url) ELSE <<>>
              /\ pc' = IF r.err = NoErr THEN "done" ELSE "failed"
    /\ UNCHANGED <<picture_tag, urlVars>>
    /\ UNCHANGED <<docVars, parseVars, keywordVars, ogVars, titleVars>>
    /\ UNCHANGED <<textVars, ancestorVars, authorVars, jsonLdVars, timestampVars, cleanVars>>

NextPicture == GetFigurePicture

SpecPicture == InitPicture /\ [][NextPicture]_vars

\* the place of a MIME type in the order WebP > JPEG > PNG > GIF > AVIF > APNG
\* > unspecified; 0 for a type that is not in the order
MimePriority(type) ==
    IF type = NoAttr THEN Len(IMAGE_MIME_TYPES) + 1
    ELSE IF InSeq(type, IMAGE_MIME_TYPES)
         THEN CHOOSE i \in 1..Len(IMAGE_MIME_TYPES) : IMAGE_MIME_TYPES[i] = type
         ELSE 0

\* the best candidates of a <source> tag on its own
OwnBestSrcs(source) ==
    LET a == ParseSrcsetString(source.srcset)
        b == ParseSrcsetString(source.data_srcset)
    IN BestSrcs(RemoveSmallWidths([w |-> a.w \cup b.w, x |-> a.x \cup b.x]))

\* the sources of the highest-priority type present, and among several of
\* them those of the largest min-width, else those of the largest max-width
PreferredSources(sources) ==
    LET ranked == {i \in 1..Len(sources) : MimePriority(sources[i].type) > 0}
        first == {i \in ranked :
                     \A j \in ranked :
                         MimePriority(sources[i].type) <= MimePriority(sources[j].type)}
        Min(i) == ParseMediaString(sources[i].media)[1]
        Max(i) == ParseMediaString(sources[i].media)[2]
    IN IF \E i \in first : Min(i) # NoNum
       THEN {i \in first : \A j \in first : Min(j) <= Min(i)}
       ELSE IF \E i \in first : Max(i) # NoNum
       THEN {i \in first : \A j \in first : Max(j) <= Max(i)}
       ELSE first

\* every <source> of the <picture> carries a usable srcset candidate, and one
\* of them has a type of the order
UsableSources(sources) ==
    /\ \A i \in 1..Len(sources) : \A u \in OwnBestSrcs(sources[i]) : ~Falsy(u)
    /\ \E i \in 1..Len(sources) : MimePriority(sources[i].type) > 0

\* C11: for a <picture> whose <source> children each carry a usable srcset
\* candidate, the image src of the figure is the best candidate of a source
\* of the highest-priority MIME type present (WebP > JPEG > PNG > GIF > AVIF >
\* APNG > unspecified; among several, the larger min-width, else the larger
\* max-width), resolved against the page URL.
C11_BestSourceByMimeType ==
    (pc \in {"done", "failed"} /\ UsableSources(picture_tag.sources)) =>
        /\ pc = "done"
        /\ Len(picture_result) = 1
        /\ \E i \in PreferredSources(picture_tag.sources) :
               \E u \in OwnBestSrcs(picture_tag.sources[i]) :
                   picture_result[1].src = UrlJoin(page_url, u)

\* C11 happens: a picture with a JPEG source, then a WebP source, and an img
\* yields the URL of the WebP source, resolved against the page URL
C11_Witness ==
    /\ pc = "done"
    /\ page_url = PageUrlString
    /\ Len(picture_tag.sources) = 2
    /\ picture_tag.sources[1].type = "image/jpeg"
    /\ picture_tag.sources[1].srcset =
           <<Candidate(SourceUrlA, 2, "x"), Candidate(SourceUrlB, 2, "x")>>
    /\ picture_tag.sources[2].type = "image/webp"
    /\ picture_tag.sources[2].srcset = <<Candidate(SourceUrlA, 100, "w")>>
    /\ picture_result =
           <<[src |-> UrlJoin(PageUrlString, SourceUrlA), alt |-> <<"t">>]>>

-----------------------------------------------------------------------------
(* ArticleExtractor.extract_authors and _process_author_list.  An author item
   is a record of name, url and image_url; a name is a string of characters
   or NullStr, a URL a URL string or NullUrl. *)

\* number of tags of the document that match an author selector
MaxBylines == 2

\* number of <a> tags among and below them
MaxBylineAnchors == 2

\* the characters of the lexeme texts at hand
Spell(text) ==
    CASE text = "" -> <<>>
      [] text = " " -> <<" ">>
      [] text = "http" -> <<"h", "t", "t", "p">>
      [] text = "https" -> <<"h", "t", "t", "p", "s">>
      [] text = "mailto" -> <<"m", "a", "i", "l", "t", "o">>
      [] text = "data" -> <<"d", "a", "t", "a">>
      [] text = "example.com" -> <<"e", "x", "a", "m", "p", "l", "e", ".", "c", "o", "m">>
      [] text = "/p" -> <<"/", "p">>
      [] text = "q" -> <<"q">>
      [] text = "/q" -> <<"/", "q">>
      [] text = "/i.png" -> <<"/", "i", ".", "p", "n", "g">>
      [] text = "f" -> <<"f">>

\* the characters of a lexeme as it stands in the URL string
LexemeChars(lexeme) ==
    CASE lexeme.kind = "scheme" -> Spell(lexeme.text) \o <<":">>
      [] lexeme.kind = "netloc" -> <<"/", "/">> \o Spell(lexeme.text)
      [] lexeme.kind = "fragment" -> <<"#">> \o Spell(lexeme.text)
      [] OTHER -> Spell(lexeme.text)

RECURSIVE UrlChars(_)
\* the characters of a URL string
UrlChars(url) ==
    IF url = <<>> THEN <<>> ELSE LexemeChars(Head(url)) \o UrlChars(Tail(url))

AuthorItem(name, url, image_url) == [name |-> name, url |-> url, image_url |-> image_url]

\* x < y of two values that are a string or None: "TypeError" when one of
\* them is None
OptionalLess(x_chars, x_none, y_chars, y_none) ==
    IF x_none \/ y_none THEN "TypeError"
    ELSE IF StrLess(x_chars, y_chars) THEN "true" ELSE "false"

\* (x["name"], x["url"], x["image_url"]) < (y["name"], ...) of the sort key:
\* the first components that differ are compared
KeyLess(x, y) ==
    IF x.name # y.name
    THEN OptionalLess(x.name, x.name = NullStr, y.name, y.name = NullStr)
    ELSE IF x.url # y.url
    THEN OptionalLess(UrlChars(x.url), x.url = NullUrl, UrlChars(y.url), y.url = NullUrl)
    ELSE IF x.image_url # y.image_url
    THEN OptionalLess(UrlChars(x.image_url), x.image_url = NullUrl,
                      UrlChars(y.image_url), y.image_url = NullUrl)
    ELSE "false"

\* the result of a step that may raise
Sorted(list) == [err |-> NoErr, list |-> list]
SortRaises == [err |-> "TypeError", list |-> <<>>]

RECURSIVE CountRun(_, _, _)
\* list.sort: the length of the run at the head of s, ascending or strictly
\* descending, counted from position k on; -1 when a comparison raises
CountRun(s, k, descending) ==
    IF k > Len(s) THEN k - 1
    ELSE LET c == KeyLess(s[k], s[k - 1])
         IN IF c = "TypeError" THEN -1
            ELSE IF (c = "true") = descending THEN CountRun(s, k + 1, descending)
            ELSE k - 1

RECURSIVE InsertionPoint(_, _, _, _)
\* list.sort: the binary search of binarysort for the place of pivot in
\* s[l..r-1]; -1 when a comparison raises
InsertionPoint(s, pivot, l, r) ==
    LET p == l + ((r - l) \div 2)
        c == KeyLess(pivot, s[p])
        l2 == IF c = "true" THEN l ELSE p + 1
        r2 == IF c = "true" THEN p ELSE r
    IN IF c = "TypeError" THEN -1
       ELSE IF l2 < r2 THEN InsertionPoint(s, pivot, l2, r2)
       ELSE l2

RECURSIVE BinarySort(_, _)
\* list.sort: binarysort, which inserts s[start], s[start+1], ... into the
\* sorted head of s
BinarySort(s, start) ==
    IF start > Len(s) THEN Sorted(s)
    ELSE LET l == InsertionPoint(s, s[start], 1, start)
         IN IF l = -1 THEN SortRaises
            ELSE BinarySort(SubSeq(s, 1, l - 1) \o <<s[start]>>
                                \o SubSeq(s, l, start - 1)
                                \o SubSeq(s, start + 1, Len(s)),
                            start + 1)

Reverse(s) == [i \in 1..Len(s) |-> s[Len(s) + 1 - i]]

\* new_author_list.sort(key=...): CPython's sort of a list shorter than 64,
\* the run at the head and binary insertion of the rest
ListSort(s) ==
    IF Len(s) < 2 THEN Sorted(s)
    ELSE LET d == KeyLess(s[2], s[1])
             n == CountRun(s, 3, d = "true")
         IN IF d = "TypeError" \/ n = -1 THEN SortRaises
            ELSE BinarySort(IF d = "true"
                            THEN Reverse(SubSeq(s, 1, n)) \o SubSeq(s, n + 1, Len(s))
                            ELSE s,
                            n + 1)

\* the matching blocks of difflib for strings under 200 characters: the
\* longest block, leftmost in a and then in b, and the blocks on either side
RECURSIVE MatchingChars(_, _)
MatchingChars(a, b) ==
    LET blocks ==
            {x \in (1..Len(a)) \X (1..Len(b)) \X (1..Len(a)) :
                /\ x[1] + x[3] - 1 <= Len(a)
                /\ x[2] + x[3] - 1 <= Len(b)
                /\ SubSeq(a, x[1], x[1] + x[3] - 1) = SubSeq(b, x[2], x[2] + x[3] - 1)}
        Better(x, y) ==
            \/ x[3] > y[3]
            \/ x[3] = y[3] /\ x[1] < y[1]
            \/ x[3] = y[3] /\ x[1] = y[1] /\ x[2] <= y[2]
    IN IF blocks = {} THEN 0
       ELSE LET best == CHOOSE x \in blocks : \A y \in blocks : Better(x, y)
            IN best[3]
                   + MatchingChars(SubSeq(a, 1, best[1] - 1), SubSeq(b, 1, best[2] - 1))
                   + MatchingChars(SubSeq(a, best[1] + best[3], Len(a)),
                                   SubSeq(b, best[2] + best[3], Len(b)))

\* SequenceMatcher.ratio() of a name and urlname is 2 * M / T: the ratio of a
\* is above that of b
RatioAbove(a, b, urlname) ==
    MatchingChars(a, urlname) * (Len(b) + Len(urlname))
        > MatchingChars(b, urlname) * (Len(a) + Len(urlname))

IsSeparator(c) == c = "/" \/ c = "="

RECURSIVE LastSegment(_)
\* [y for x in url.split("/") for y in x.split("=") if y][-1], for a URL
\* that has such a segment
LastSegment(chars) ==
    IF chars = <<>> THEN <<>>
    ELSE IF IsSeparator(chars[Len(chars)])
         THEN IF \A i \in 1..Len(chars) : IsSeparator(chars[i]) THEN <<>>
              ELSE LastSegment(SubSeq(chars, 1, Len(chars) - 1))
    ELSE IF Len(chars) = 1 \/ IsSeparator(chars[Len(chars) - 1])
         THEN <<chars[Len(chars)]>>
    ELSE LastSegment(SubSeq(chars, 1, Len(chars) - 1)) \o <<chars[Len(chars)]>>

\* get_best_author_name of _process_author_list: None of no name, else the
\* first name of the highest ratio, where the names come in the order of
\* list(set(...)); the names it can return
GetBestAuthorName(names, url) ==
    IF names = {} THEN {NullStr}
    ELSE LET urlname == Lower(LastSegment(UrlChars(url)))
         IN {n \in names : \A m \in names : ~RatioAbove(Lower(m), Lower(n), urlname)}

\* get_best_author_image_url: the first of list(set(...)), None of none
GetBestAuthorImageUrl(image_urls) == IF image_urls = {} THEN {NullUrl} ELSE image_urls

RECURSIVE FirstSeen(_, _)
\* the keys of merged_authors but None, in the order of their insertion
FirstSeen(list, seen) ==
    IF list = <<>> THEN <<>>
    ELSE IF Head(list).url = NullUrl \/ Head(list).url \in seen
         THEN FirstSeen(Tail(list), seen)
    ELSE <<Head(list).url>> \o FirstSeen(Tail(list), seen \cup {Head(list).url})

\* the merged items of _process_author_list for the de-duplicated list: the
\* items without a url as they are, then one item for each url; the lists it
\* can make before the sort
MergedAuthors(list) ==
    LET HasNoUrl(item) == item.url = NullUrl
        urls == FirstSeen(list, {})
        Names(u) == {list[i].name : i \in {j \in 1..Len(list) :
                        list[j].url = u /\ ~FalsyText(list[j].name)}}
        Images(u) == {list[i].image_url : i \in {j \in 1..Len(list) :
                        list[j].url = u /\ ~Falsy(list[j].image_url)}}
        choices == {c \in [1..Len(urls) -> [name : UNION {GetBestAuthorName(Names(urls[i]), urls[i]) : i \in 1..Len(urls)},
                                            image_url : UNION {GetBestAuthorImageUrl(Images(urls[i])) : i \in 1..Len(urls)}]] :
                       \A i \in 1..Len(urls) :
                           /\ c[i].name \in GetBestAuthorName(Names(urls[i]), urls[i])
                           /\ c[i].image_url \in GetBestAuthorImageUrl(Images(urls[i]))}
    IN {SelectSeq(list, HasNoUrl)
            \o [i \in 1..Len(urls) |-> AuthorItem(c[i].name, urls[i], c[i].image_url)] :
        c \in choices}

\* ArticleExtractor._process_author_list: what it can return or raise, the
\* order of set(author_list) being any
ProcessAuthorList(list) ==
    LET items == SeqToSet(list)
        urls == {item.url : item \in {x \in items : ~Falsy(x.url)}}
    IN IF Cardinality(items) <= 1 \/ Cardinality(urls) = Cardinality(items)
       THEN {Sorted(order) : order \in Orders(items)}
       ELSE UNION {{ListSort(merged) : merged \in MergedAuthors(order)} :
                   order \in Orders(items)}

\* AUTHOR_SELECTORS of extract_authors, from the most to the least specific:
\* each group by the first of its selectors
AUTHOR_SELECTORS ==
    <<"a[rel='author']", "a.author", "[id='penulis']", "span.author",
      "span[class*='author']", "[id='editor']">>

\* the containers extract_authors searches, in its order; a tag of the
\* document lies in top_tag (and so in base_tag and the body), in base_tag
\* outside top_tag, or in the body outside base_tag
AuthorContainers == <<"top_tag", "base_tag", "body">>

InContainer(tag, container) ==
    \/ container = "body"
    \/ container = "base_tag" /\ tag.scope \in {"top_tag", "base_tag"}
    \/ container = "top_tag" /\ tag.scope = "top_tag"

\* container.select(selector), where tag.selector is the first group of
\* AUTHOR_SELECTORS that the tag matches
SelectAuthorTags(tags, container, selector) ==
    LET Matches(tag) == InContainer(tag, container) /\ tag.selector = selector
    IN SelectSeq(tags, Matches)

\* name = tag.get_text().strip(); None if it is empty
StrippedOrNone(text) == IF Strip(text) = <<>> THEN NullStr ELSE Strip(text)

RECURSIVE AnchorsText(_)
AnchorsText(anchors) ==
    IF anchors = <<>> THEN <<>> ELSE Head(anchors).text \o AnchorsText(Tail(anchors))

\* tag.get_text() of a matched tag: its own text and that of its anchors
GetTagText(tag) == tag.text \o AnchorsText(tag.anchors)

\* href = urljoin(self.page_url, tag.get("href")), None unless its scheme is
\* one of URL_SCHEMES
AuthorHref(href, url) ==
    IF UrlJoin(url, href) = NullUrl THEN NullUrl
    ELSE IF UrlParse(UrlJoin(url, href)).scheme \notin URL_SCHEMES THEN NullUrl
    ELSE UrlJoin(url, href)

\* the image_url of the item of a tag: that of the <img> below it, if any
AuthorImageUrl(has_img, url) ==
    IF ~has_img \/ ProcessImgTag(ImgTag).img_src = NullUrl THEN NullUrl
    ELSE AuthorHref(ProcessImgTag(ImgTag).img_src, url)

\* any(author_item.values())
AnyValue(item) == ~FalsyText(item.name) \/ ~Falsy(item.url) \/ ~Falsy(item.image_url)

RECURSIVE AnchorItems(_, _, _)
\* the loop over tag.find_all("a") of a tag that is not an anchor: one item
\* for each anchor, named by its text or else by the text of the tag
AnchorItems(anchors, name, url) ==
    IF anchors = <<>> THEN <<>>
    ELSE LET anchor_tag == Head(anchors)
             anchor_name == IF Strip(anchor_tag.text) = <<>> THEN name
                            ELSE Strip(anchor_tag.text)
             author_item == AuthorItem(anchor_name, AuthorHref(anchor_tag.href, url),
                                       AuthorImageUrl(anchor_tag.has_img, url))
         IN (IF AnyValue(author_item) THEN <<author_item>> ELSE <<>>)
                \o AnchorItems(Tail(anchors), name, url)

\* the items extract_authors appends for one matched tag
TagItems(tag, url) ==
    IF tag.name = "a"
    THEN LET author_item == AuthorItem(StrippedOrNone(GetTagText(tag)),
                                       AuthorHref(tag.href, url),
                                       AuthorImageUrl(tag.has_img, url))
         IN IF AnyValue(author_item) THEN <<author_item>> ELSE <<>>
    ELSE LET name == StrippedOrNone(GetTagText(tag))
             has_img == tag.has_img \/ \E i \in 1..Len(tag.anchors) : tag.anchors[i].has_img
         IN IF AnchorItems(tag.anchors, name, url) # <<>>
            THEN AnchorItems(tag.anchors, name, url)
            ELSE IF ~FalsyText(name)
            THEN <<AuthorItem(name, NullUrl, AuthorImageUrl(has_img, url))>>
            ELSE <<>>

RECURSIVE TagsItems(_, _)
TagsItems(tags, url) ==
    IF tags = <<>> THEN <<>> ELSE TagItems(Head(tags), url) \o TagsItems(Tail(tags), url)

\* author_list after the loop over container.select(selector)
SelectorItems(tags, container, selector, url) ==
    TagsItems(SelectAuthorTags(tags, container, selector), url)

\* the pairs of container and selector in the order of the two loops
AuthorPairs ==
    [k \in 1..(Len(AuthorContainers) * Len(AUTHOR_SELECTORS)) |->
        [container |-> AuthorContainers[((k - 1) \div Len(AUTHOR_SELECTORS)) + 1],
         selector |-> AUTHOR_SELECTORS[((k - 1) % Len(AUTHOR_SELECTORS)) + 1]]]

RECURSIVE FirstAuthorList(_, _, _)
RECURSIVE ItemsOrNext(_, _, _, _)

\* the two loops over the containers and AUTHOR_SELECTORS, from the k-th
\* pair on: author_list of the first pair that leaves it non-empty, [] when
\* none does
FirstAuthorList(tags, url, k) ==
    IF k > Len(AuthorPairs) THEN <<>>
    ELSE ItemsOrNext(SelectorItems(tags, AuthorPairs[k].container,
                                   AuthorPairs[k].selector, url),
                     tags, url, k)

\* if author_list: return; else the next pair
ItemsOrNext(items, tags, url, k) ==
    IF items # <<>> THEN items ELSE FirstAuthorList(tags, url, k + 1)

FirstOf(S) == CHOOSE k \in S : \A j \in S : k <= j

\* x.startswith(("http://", "https://", "ftp://", "//"))
LooksLikeUrl(x) ==
    /\ x # <<>>
    /\ \/ x[1].kind = "netloc"
       \/ /\ x[1].kind = "scheme" /\ x[1].text \in {"http", "https", "ftp"}
          /\ Len(x) > 1 /\ x[2].kind = "netloc"

\* the items of the content of <meta name="author"> tags and of the OGP
\* article:author values
NamedOrLinked(contents) ==
    [i \in 1..Len(contents) |->
        IF LooksLikeUrl(contents[i]) THEN AuthorItem(NullStr, contents[i], NullUrl)
        ELSE AuthorItem(UrlChars(contents[i]), NullUrl, NullUrl)]

\* the content of the <meta name="author"> tags that have one
MetaAuthors(contents) == LET Filled(x) == ~Falsy(x) IN SelectSeq(contents, Filled)

\* the author list and its method, or the error raised
AuthorsFound(r, method) ==
    [err |-> r.err, list |-> r.list, method |-> IF r.err = NoErr THEN method ELSE "None"]

\* the author list that extract_authors hands to _process_author_list, and
\* the method it returns with it: the matched tags, else the JSON-LD
\* authors, else <meta name="author">, else the OGP article:author
FoundAuthors(from_tags, sources) ==
    IF from_tags # <<>> THEN [list |-> from_tags, method |-> "a"]
    ELSE IF sources.json_ld # <<>>
    THEN [list |-> sources.json_ld, method |-> "json_ld"]
    ELSE IF MetaAuthors(sources.meta) # <<>>
    THEN [list |-> NamedOrLinked(MetaAuthors(sources.meta)), method |-> "head"]
    ELSE IF sources.ogp # <<>>
    THEN [list |-> NamedOrLinked(sources.ogp), method |-> "ogp"]
    ELSE [list |-> <<>>, method |-> "None"]

\* return self._process_author_list(author_list), method; [] and None when
\* nothing was found
ProcessFound(found) ==
    IF found.method = "None" THEN {AuthorsFound(Sorted(<<>>), "None")}
    ELSE {AuthorsFound(r, found.method) : r \in ProcessAuthorList(found.list)}

\* ArticleExtractor.extract_authors, for top_tag and base_tag set: what it
\* can return or raise
ExtractAuthorsResults(sources, url) ==
    ProcessFound(FoundAuthors(FirstAuthorList(sources.tags, url, 1), sources))

\* the texts and hrefs of the anchors at hand
AnchorTexts == {<<>>, <<"p">>, <<" ", "j">>}

MailtoUrl == <<Lexeme("scheme", "mailto"), Lexeme("path", "q")>>

AnchorHrefs == {NullUrl, <<Lexeme("path", "/p")>>, <<Lexeme("path", "q")>>, MailtoUrl}

\* an <a> below a matched tag
InnerAnchors ==
    [text : AnchorTexts, href : AnchorHrefs \ {<<Lexeme("path", "q")>>}, has_img : {FALSE}]

BylineTag(scope, selector, name, text, href, has_img, anchors) ==
    [scope |-> scope, selector |-> selector, name |-> name, text |-> text,
     href |-> href, has_img |-> has_img, anchors |-> anchors]

\* the matched tags with n anchors among and below them: an <a>, with an
\* <img> in it or not, or a <div> of some text and n anchors
BylineTags(n) ==
    (IF n # 1 THEN {}
     ELSE {BylineTag(scope, selector, "a", text, href, FALSE, <<>>) :
              scope \in SeqToSet(AuthorContainers),
              selector \in {AUTHOR_SELECTORS[1], AUTHOR_SELECTORS[2]},
              text \in AnchorTexts, href \in AnchorHrefs}
          \cup {BylineTag("top_tag", AUTHOR_SELECTORS[1], "a", text, NullUrl, TRUE, <<>>) :
                   text \in AnchorTexts})
    \cup {BylineTag(scope, AUTHOR_SELECTORS[4], "div", text, NullUrl, has_img, anchors) :
             scope \in SeqToSet(AuthorContainers), text \in {<<>>, <<"j">>},
             has_img \in {h \in BOOLEAN : h => n = 0},
             anchors \in [1..n -> InnerAnchors]}

RECURSIVE BylineLists(_, _)
\* the lists of at most n matched tags with at most k anchors
BylineLists(n, k) ==
    IF n = 0 THEN {<<>>}
    ELSE {<<>>} \cup UNION {{<<tag>> \o rest : tag \in BylineTags(j),
                                              rest \in BylineLists(n - 1, k - j)} :
                            j \in 0..k}

\* the author lists of the metadata at hand
JsonLdAuthors ==
    {<<>>, <<AuthorItem(<<"p">>, NullUrl, NullUrl)>>,
     <<AuthorItem(<<"p">>, NullUrl, NullUrl), AuthorItem(<<"p">>, PageUrlString, NullUrl)>>}

AuthorContents == {<<>>, <<<<Lexeme("path", "q")>>>>, <<PageUrlString>>}

InitAuthors ==
    /\ pc = "extract_authors"
    /\ err = NoErr
    /\ \E tags \in BylineLists(MaxBylines, MaxBylineAnchors) :
           \E json_ld \in JsonLdAuthors : \E meta \in AuthorContents :
               \E ogp \in AuthorContents :
                   /\ Len(tags) > 1 => json_ld = <<>> /\ meta = <<>> /\ ogp = <<>>
                   /\ author_sources =
                          [tags |-> tags, json_ld |-> json_ld, meta |-> meta, ogp |-> ogp]
    /\ author_list = <<>>
    /\ page_url \in {NullUrl, PageUrlString}
    /\ url_sources = Idle /\ video_tags = Idle /\ links_list = Idle
    /\ image_list = Idle /\ video_list = Idle
    /\ IdleBut({"authors", "url"})

\* ArticleExtractor.extract_authors
ExtractAuthors ==
    /\ pc = "extract_authors"
    /\ \E r \in ExtractAuthorsResults(author_sources, page_url) :
           /\ err' = r.err
           /\ author_list' = [list |-> r.list, method |-> r.method]
           /\ pc' = IF r.err = NoErr THEN "done" ELSE "failed"
    /\ UNCHANGED <<author_sources, urlVars>>
    /\ UNCHANGED <<docVars, parseVars, keywordVars, ogVars, titleVars>>
    /\ UNCHANGED <<textVars, ancestorVars, pictureVars, jsonLdVars, timestampVars, cleanVars>>

NextAuthors == ExtractAuthors

SpecAuthors == InitAuthors /\ [][NextAuthors]_vars

\* the first pair of container and selector group, in the order of the scan,
\* whose selector matches a tag of the container
MatchingPairs(tags) ==
    {k \in 1..Len(AuthorPairs) :
        SelectAuthorTags(tags, AuthorPairs[k].container, AuthorPairs[k].selector) # <<>>}

FirstMatched(tags) ==
    SelectAuthorTags(tags, AuthorPairs[FirstOf(MatchingPairs(tags))].container,
                     AuthorPairs[FirstOf(MatchingPairs(tags))].selector)

\* the name of the item of a child anchor: the text of the anchor, and for
\* an anchor without text that of the tag
NameOfAnchor(tag, i) ==
    IF Strip(tag.anchors[i].text) = <<>> THEN StrippedOrNone(GetTagText(tag))
    ELSE Strip(tag.anchors[i].text)

RECURSIVE ItemsPerAnchor(_, _)
\* one item {name: anchor text, url: href resolved against the page URL} for
\* each child anchor of each of the tags, and for a tag without anchors one
\* item named by its text
ItemsPerAnchor(tags, url) ==
    IF tags = <<>> THEN <<>>
    ELSE (IF Head(tags).anchors = <<>>
          THEN <<[name |-> StrippedOrNone(Head(tags).text), url |-> NullUrl]>>
          ELSE [i \in 1..Len(Head(tags).anchors) |->
                   [name |-> NameOfAnchor(Head(tags), i),
                    url |-> AuthorHref(Head(tags).anchors[i].href, url)]])
             \o ItemsPerAnchor(Tail(tags), url)

\* the tag has a child anchor or a text
HasByline(tag) == tag.anchors # <<>> \/ Strip(tag.text) # <<>>

\* C12: when extract_authors has run on a page with a URL where the first
\* pair of container and selector group with a match matches non-anchor
\* tags that each have a child anchor or a text, it returns by method "a"
\* one author item for each child anchor of those tags (name the anchor
\* text, url the href resolved against the page URL), and for a tag without
\* anchors one item named by the tag's text
C12_OneItemPerChildAnchor ==
    (/\ pc \in {"done", "failed"}
     /\ page_url = PageUrlString
     /\ MatchingPairs(author_sources.tags) # {}
     /\ \A i \in 1..Len(FirstMatched(author_sources.tags)) :
            /\ FirstMatched(author_sources.tags)[i].name # "a"
            /\ HasByline(FirstMatched(author_sources.tags)[i])) =>
        /\ pc = "done"
        /\ author_list.method = "a"
        /\ Len(author_list.list)
               = Len(ItemsPerAnchor(FirstMatched(author_sources.tags), page_url))
        /\ {[name |-> author_list.list[i].name, url |-> author_list.list[i].url] :
                i \in 1..Len(author_list.list)}
               = SeqToSet(ItemsPerAnchor(FirstMatched(author_sources.tags), page_url))

\* the author container <div class="author"><a href="/p">p</a></div> in
\* top_tag has given the one item {name: p, url: https://example.com/p}
C12_ExampleContainer ==
    /\ pc = "done"
    /\ page_url = PageUrlString
    /\ author_sources.tags =
           <<BylineTag("top_tag", AUTHOR_SELECTORS[4], "div", <<>>, NullUrl, FALSE,
                       <<[text |-> <<"p">>, href |-> <<Lexeme("path", "/p")>>,
                          has_img |-> FALSE]>>)>>
    /\ author_list.list = <<AuthorItem(<<"p">>, PageUrlString, NullUrl)>>
    /\ author_list.method = "a"

\* extract_authors has raised TypeError on a container of two anchors of the
\* same text, one with a mailto href
C12_SortRaises ==
    /\ pc = "failed"
    /\ err = "TypeError"
    /\ page_url = PageUrlString
    /\ Len(author_sources.tags) = 1
    /\ author_sources.tags[1].name = "div"
    /\ author_sources.tags[1].text = <<>>
    /\ author_sources.tags[1].anchors =
           <<[text |-> <<"p">>, href |-> <<Lexeme("path", "/p")>>, has_img |-> FALSE],
             [text |-> <<"p">>, href |-> MailtoUrl, has_img |-> FALSE]>>

-----------------------------------------------------------------------------
(* metadata.extract_json_ld_dictlist.  The body of a <script> tag of type
   application/ld+json is what json.loads makes of tag.string: no string at
   all (an empty tag), a text that is not JSON, a scalar, an object or an
   array.  A JSON value of a block is a node: an object with an "@id", with
   or without "@context" and "@graph", or a number or a string. *)

\* number of <script type="application/ld+json"> tags of a document
MaxScripts == 2

JsonNode(kind, id, context, has_graph, graph_is_list, graph) ==
    [kind |-> kind, id |-> id, context |-> context, has_graph |-> has_graph,
     graph_is_list |-> graph_is_list, graph |-> graph]

\* an object without "@graph"; context is NoAttr when it has no "@context"
PlainNode(id, context) == JsonNode("object", id, context, FALSE, FALSE, <<>>)

\* a value that is not an object
ScalarNode(kind) == JsonNode(kind, NoAttr, NoAttr, FALSE, FALSE, <<>>)

JsonBody(kind, items) == [kind |-> kind, items |-> items]

\* the outcome of a loop that may raise
Collected(list) == [err |-> NoErr, list |-> list]
CollectRaises(e) == [err |-> e, list |-> <<>>]

RECURSIVE CollectBlocks(_, _)
\* the first loop of extract_json_ld_dictlist: json.loads(tag.string) of
\* every tag; a JSONDecodeError is caught, the TypeError of json.loads(None)
\* is not
CollectBlocks(bodies, json_ld_dictlist_graph) ==
    IF bodies = <<>> THEN Collected(json_ld_dictlist_graph)
    ELSE LET tag == Head(bodies)
         IN IF tag.kind = "none" THEN CollectRaises("TypeError")
            ELSE IF tag.kind = "invalid"
                 THEN CollectBlocks(Tail(bodies), json_ld_dictlist_graph)
            ELSE IF tag.kind = "array"
                 THEN CollectBlocks(Tail(bodies), json_ld_dictlist_graph \o tag.items)
            ELSE IF tag.kind = "object"
                 THEN CollectBlocks(Tail(bodies), Append(json_ld_dictlist_graph, tag.items[1]))
            ELSE CollectBlocks(Tail(bodies), json_ld_dictlist_graph)

RECURSIVE DistributeContext(_, _, _)
\* the loop over dictitem["@graph"]: a member without "@context" gets that
\* of the graph; a member that is not an object raises TypeError
DistributeContext(itemlist, context, dictlist) ==
    IF itemlist = <<>> THEN Collected(dictlist)
    ELSE LET item == Head(itemlist)
         IN IF item.kind # "object" THEN CollectRaises("TypeError")
            ELSE DistributeContext(
                     Tail(itemlist), context,
                     Append(dictlist,
                            IF item.context = NoAttr THEN [item EXCEPT !.context = context]
                            ELSE item))

RECURSIVE FlattenGraphs(_, _)
\* the second loop of extract_json_ld_dictlist: "@graph" in dictitem raises
\* TypeError for a number and is false for the strings at hand;
\* dictitem["@context"] raises KeyError for a graph without "@context"
FlattenGraphs(graph, dictlist) ==
    IF graph = <<>> THEN Collected(dictlist)
    ELSE LET dictitem == Head(graph)
         IN IF dictitem.kind = "number" THEN CollectRaises("TypeError")
            ELSE IF dictitem.kind = "object" /\ dictitem.has_graph
            THEN IF dictitem.context = NoAttr THEN CollectRaises("KeyError")
                 ELSE IF dictitem.graph_is_list
                 THEN LET r == DistributeContext(dictitem.graph, dictitem.context,
                                                 dictlist)
                      IN IF r.err # NoErr THEN r ELSE FlattenGraphs(Tail(graph), r.list)
                 ELSE FlattenGraphs(Tail(graph), dictlist)
            ELSE FlattenGraphs(Tail(graph), Append(dictlist, dictitem))

\* metadata.extract_json_ld_dictlist
ExtractJsonLdDictlist(bodies) ==
    IF CollectBlocks(bodies, <<>>).err # NoErr THEN CollectBlocks(bodies, <<>>)
    ELSE FlattenGraphs(CollectBlocks(bodies, <<>>).list, <<>>)

\* the "@context" values at hand
SharedContext == "https://schema.org"
OwnContext == "https://schema.org/docs"

\* the members of the "@graph" arrays at hand
GraphMembers ==
    {PlainNode("m1", NoAttr), PlainNode("m2", OwnContext), ScalarNode("number")}

\* the objects with "@graph" at hand: with and without "@context", the graph
\* an array of members or a string
GraphNodes ==
    {JsonNode("object", NoAttr, context, TRUE, TRUE, graph) :
        context \in {NoAttr, SharedContext}, graph \in ListsUpTo(GraphMembers, 2)}
    \cup {JsonNode("object", NoAttr, context, TRUE, FALSE, <<>>) :
             context \in {NoAttr, SharedContext}}

JsonNodes ==
    {PlainNode("a", SharedContext), PlainNode("b", NoAttr),
     ScalarNode("number"), ScalarNode("string")} \cup GraphNodes

\* the elements of the top-level arrays at hand
ArrayNodes ==
    {PlainNode("a", SharedContext), ScalarNode("number"),
     JsonNode("object", NoAttr, SharedContext, TRUE, TRUE, <<PlainNode("m1", NoAttr)>>)}

\* what the <script> tags at hand hold
JsonBodies ==
    {JsonBody("none", <<>>), JsonBody("invalid", <<>>), JsonBody("scalar", <<>>)}
    \cup {JsonBody("object", <<node>>) : node \in JsonNodes \ {ScalarNode("number"),
                                                                ScalarNode("string")}}
    \cup {JsonBody("array", items) : items \in ListsUpTo(ArrayNodes, 2)}

InitJsonLdDictlist ==
    /\ pc = "extract_json_ld_dictlist"
    /\ err = NoErr
    /\ script_bodies \in ListsUpTo(JsonBodies, MaxScripts)
    /\ json_ld_dictlist = <<>>
    /\ metadata_json_ld = Idle
    /\ IdleBut({"json_ld"})

\* metadata.extract_json_ld_dictlist on the <script> tags of the document
ExtractDictlist ==
    /\ pc = "extract_json_ld_dictlist"
    /\ err' = ExtractJsonLdDictlist(script_bodies).err
    /\ json_ld_dictlist' = ExtractJsonLdDictlist(script_bodies).list
    /\ pc' = IF ExtractJsonLdDictlist(script_bodies).err = NoErr THEN "done" ELSE "failed"
    /\ UNCHANGED <<script_bodies, metadata_json_ld>>
    /\ UNCHANGED <<docVars, urlVars, parseVars, keywordVars, ogVars, titleVars>>
    /\ UNCHANGED <<textVars, ancestorVars, pictureVars, authorVars, timestampVars, cleanVars>>

NextJsonLdDictlist == ExtractDictlist

SpecJsonLdDictlist == InitJsonLdDictlist /\ [][NextJsonLdDictlist]_vars

\* a node that stands for itself, or a graph with a shared "@context" and an
\* array of objects
SoundNode(node) ==
    /\ node.kind = "object"
    /\ node.has_graph =>
           /\ node.context # NoAttr
           /\ node.graph_is_list
           /\ \A i \in 1..Len(node.graph) : node.graph[i].kind = "object"

\* a block that holds an object or an array of objects, each of them sound
SoundBlock(body) ==
    /\ body.kind \in {"object", "array"}
    /\ \A i \in 1..Len(body.items) : SoundNode(body.items[i])

\* a malformed block of one of the four kinds: an empty body, invalid JSON,
\* a value that is neither object nor array, or a graph without "@context"
MalformedBlock(body) ==
    \/ body.kind \in {"none", "invalid", "scalar"}
    \/ /\ body.kind = "object"
       /\ body.items[1].has_graph /\ body.items[1].context = NoAttr

RECURSIVE NodesOfNodes(_)
\* the nodes of sound nodes: a node itself, the members of a graph with its
\* context where they have none
NodesOfNodes(nodes) ==
    IF nodes = <<>> THEN <<>>
    ELSE (IF Head(nodes).has_graph
          THEN [i \in 1..Len(Head(nodes).graph) |->
                   IF Head(nodes).graph[i].context = NoAttr
                   THEN [Head(nodes).graph[i] EXCEPT !.context = Head(nodes).context]
                   ELSE Head(nodes).graph[i]]
          ELSE <<Head(nodes)>>)
             \o NodesOfNodes(Tail(nodes))

RECURSIVE NodesOfSoundBlocks(_)
NodesOfSoundBlocks(bodies) ==
    IF bodies = <<>> THEN <<>>
    ELSE (IF SoundBlock(Head(bodies)) THEN NodesOfNodes(Head(bodies).items) ELSE <<>>)
             \o NodesOfSoundBlocks(Tail(bodies))

\* C13: when extract_json_ld_dictlist has run on script bodies that are each
\* sound or malformed in one of the four ways (invalid JSON, an empty body,
\* neither object nor array, a graph without a shared context), it has not
\* raised and has returned the nodes of the sound blocks
C13_MalformedBlockSkipped ==
    (/\ pc \in {"done", "failed"}
     /\ \A i \in 1..Len(script_bodies) :
            SoundBlock(script_bodies[i]) \/ MalformedBlock(script_bodies[i])) =>
        /\ pc = "done"
        /\ json_ld_dictlist = NodesOfSoundBlocks(script_bodies)

\* the same for the blocks malformed in the two ways the code handles:
\* invalid JSON and a value that is neither object nor array
C13_InvalidOrScalarSkipped ==
    (/\ pc \in {"done", "failed"}
     /\ \A i \in 1..Len(script_bodies) :
            SoundBlock(script_bodies[i]) \/ script_bodies[i].kind \in {"invalid", "scalar"}) =>
        /\ pc = "done"
        /\ json_ld_dictlist = NodesOfSoundBlocks(script_bodies)

\* an empty <script> tag before a block with a node has made
\* extract_json_ld_dictlist raise TypeError
C13_EmptyBodyRaises ==
    /\ pc = "failed"
    /\ err = "TypeError"
    /\ script_bodies = <<JsonBody("none", <<>>),
                         JsonBody("object", <<PlainNode("a", SharedContext)>>)>>

\* a graph without "@context" has made it raise KeyError
C13_GraphWithoutContextRaises ==
    /\ pc = "failed"
    /\ err = "KeyError"
    /\ Len(script_bodies) = 2
    /\ script_bodies[1] = JsonBody("object", <<PlainNode("a", SharedContext)>>)
    /\ script_bodies[2].kind = "object"
    /\ script_bodies[2].items[1].has_graph
    /\ script_bodies[2].items[1].context = NoAttr

-----------------------------------------------------------------------------
(* metadata.extract_json_ld: the choice of the nodes and the merge of their
   fields.  A node of json_ld_dictlist has a "@type" and, of the fields the
   merge reads, here a headline (as every plain string field), a url and a
   publisher (an object with a name, as an author); a field it does not
   have is NullStr, NullUrl, NullStr. *)

\* number of nodes of json_ld_dictlist
MaxJsonLdNodes == 2

NEWSARTICLE_SCHEMA ==
    {"AnalysisNewsArticle", "AskPublicNewsArticle", "BackgroundNewsArticle",
     "NewsArticle", "OpinionNewsArticle", "ReportageNewsArticle", "ReviewNewsArticle"}

ARTICLE_SCHEMA ==
    {"Article", "AdvertiserContentArticle", "Report", "SatiricalArticle",
     "ScholarlyArticle"}

BLOGPOST_SCHEMA ==
    {"SocialMediaPosting", "BlogPosting", "LiveBlogPosting", "DiscussionForumPosting"}

WEBPAGE_SCHEMA == {"WebPage"}

\* the schemas in the order in which extract_json_ld looks for their nodes
SchemaOrder == <<NEWSARTICLE_SCHEMA, ARTICLE_SCHEMA, BLOGPOST_SCHEMA, WEBPAGE_SCHEMA>>

\* newsarticlelist, articlelist, blogpostlist, webpagelist: the nodes of the
\* list whose "@type" is of the schema
NodesOfSchema(dictlist, schema) ==
    LET OfSchema(x) == x.type # NoAttr /\ x.type \in schema
    IN SelectSeq(dictlist, OfSchema)

RECURSIVE SortedArticleDictlist(_, _)
\* sorted_article_dictlist: for each schema in order its node, if it has
\* exactly one
SortedArticleDictlist(dictlist, schemas) ==
    IF schemas = <<>> THEN <<>>
    ELSE (IF Len(NodesOfSchema(dictlist, Head(schemas))) = 1
          THEN NodesOfSchema(dictlist, Head(schemas))
          ELSE <<>>)
             \o SortedArticleDictlist(dictlist, Tail(schemas))

\* the merge of one node into metadata_json_ld: a publisher with a name
\* that is not blank is appended; a headline that is not blank and a url
\* that validates are set if the key is not there yet
MergeNode(metadata, item) ==
    [headline |->
         IF item.headline # NullStr /\ Strip(item.headline) # <<>>
                /\ metadata.headline = NullStr
         THEN Strip(item.headline) ELSE metadata.headline,
     url |->
         IF item.url # NullUrl /\ StripUrl(item.url) # <<>>
                /\ ValidateUrl(StripUrl(item.url)) /\ metadata.url = NullUrl
         THEN StripUrl(item.url) ELSE metadata.url,
     publisher |->
         IF item.publisher # NullStr /\ Strip(item.publisher) # <<>>
         THEN Append(metadata.publisher, [name |-> Strip(item.publisher), url |-> NullUrl])
         ELSE metadata.publisher]

RECURSIVE MergeNodes(_, _)
MergeNodes(metadata, items) ==
    IF items = <<>> THEN metadata
    ELSE MergeNodes(MergeNode(metadata, Head(items)), Tail(items))

\* metadata.extract_json_ld on the nodes of extract_json_ld_dictlist
ExtractJsonLd(dictlist) ==
    MergeNodes([headline |-> NullStr, url |-> NullUrl, publisher |-> <<>>],
               SortedArticleDictlist(dictlist, SchemaOrder))

TypedNode(type, headline, url, publisher) ==
    [type |-> type, headline |-> headline, url |-> url, publisher |-> publisher]

\* the nodes at hand
TypedNodes ==
    {TypedNode(type, headline, url, publisher) :
        type \in {"NewsArticle", "Report", "BlogPosting", "WebPage", "Person", NoAttr},
        headline \in {NullStr, <<"a">>, <<" ", "A">>, <<" ">>},
        url \in {NullUrl, PageUrlString, RelativeUrlString},
        publisher \in {NullStr, <<"a">>, <<"A", " ">>}}

InitJsonLd ==
    /\ pc = "extract_json_ld"
    /\ err = NoErr
    /\ script_bodies = Idle
    /\ json_ld_dictlist \in ListsUpTo(TypedNodes, MaxJsonLdNodes)
    /\ metadata_json_ld = <<>>
    /\ IdleBut({"json_ld"})

\* metadata.extract_json_ld, after its call of extract_json_ld_dictlist
ExtractJsonLdMetadata ==
    /\ pc = "extract_json_ld"
    /\ metadata_json_ld' = ExtractJsonLd(json_ld_dictlist)
    /\ pc' = "done"
    /\ UNCHANGED <<err, script_bodies, json_ld_dictlist>>
    /\ UNCHANGED <<docVars, urlVars, parseVars, keywordVars, ogVars, titleVars>>
    /\ UNCHANGED <<textVars, ancestorVars, pictureVars, authorVars, timestampVars, cleanVars>>

NextJsonLd == ExtractJsonLdMetadata

SpecJsonLd == InitJsonLd /\ [][NextJsonLd]_vars

\* the places of the nodes of the list that are the only one of their
\* category, in the order NewsArticle, Article, BlogPosting, WebPage
OnlyOfCategory(dictlist, k) ==
    {i \in 1..Len(dictlist) :
        /\ dictlist[i].type # NoAttr /\ dictlist[i].type \in SchemaOrder[k]
        /\ \A j \in 1..Len(dictlist) :
               (dictlist[j].type # NoAttr /\ dictlist[j].type \in SchemaOrder[k]) => j = i}

\* the categories whose selected node supplies the field
Supplying(dictlist, Supplies(_)) ==
    {k \in 1..Len(SchemaOrder) : \E i \in OnlyOfCategory(dictlist, k) : Supplies(dictlist[i])}

\* the selected node of the highest-priority category that supplies the field
HighestSupplying(dictlist, Supplies(_)) ==
    LET k == FirstOf(Supplying(dictlist, Supplies))
    IN dictlist[CHOOSE i \in OnlyOfCategory(dictlist, k) : TRUE]

SuppliesHeadline(x) == x.headline # NullStr /\ Strip(x.headline) # <<>>
SuppliesUrl(x) == x.url # NullUrl /\ ValidateUrl(StripUrl(x.url))
SuppliesPublisher(x) == x.publisher # NullStr /\ Strip(x.publisher) # <<>>

\* the scalar fields of the merge are those of the highest-priority selected
\* node that supplies them
ScalarsFromHighestPriority ==
    /\ metadata_json_ld.headline =
           IF Supplying(json_ld_dictlist, SuppliesHeadline) = {} THEN NullStr
           ELSE Strip(HighestSupplying(json_ld_dictlist, SuppliesHeadline).headline)
    /\ metadata_json_ld.url =
           IF Supplying(json_ld_dictlist, SuppliesUrl) = {} THEN NullUrl
           ELSE StripUrl(HighestSupplying(json_ld_dictlist, SuppliesUrl).url)

\* C14: when extract_json_ld has merged the nodes it selected (for each
\* category the node that is the only one of it), every merged field, scalar
\* or sequence-valued, is the coerced value of the highest-priority selected
\* node that supplies the field
C14_HighestPriorityNodeSupplies ==
    pc = "done" =>
        /\ ScalarsFromHighestPriority
        /\ metadata_json_ld.publisher =
               IF Supplying(json_ld_dictlist, SuppliesPublisher) = {} THEN <<>>
               ELSE <<[name |-> Strip(HighestSupplying(json_ld_dictlist,
                                                      SuppliesPublisher).publisher),
                       url |-> NullUrl]>>

\* the same for the scalar fields alone
C14_ScalarNeverOverwritten == pc = "done" => ScalarsFromHighestPriority

\* a NewsArticle node and a WebPage node that both have a publisher have
\* left two publishers in the merge
C14_TwoPublishers ==
    /\ pc = "done"
    /\ Len(json_ld_dictlist) = 2
    /\ json_ld_dictlist[1].type = "WebPage" /\ json_ld_dictlist[1].publisher = <<"a">>
    /\ json_ld_dictlist[2].type = "NewsArticle" /\ json_ld_dictlist[2].publisher = <<"A", " ">>
    /\ metadata_json_ld.publisher =
           <<[name |-> <<"A">>, url |-> NullUrl], [name |-> <<"a">>, url |-> NullUrl]>>

-----------------------------------------------------------------------------
(* ArticleExtractor.extract_timestamps.  The sources are the date fields of
   the JSON-LD and OGP metadata (ISO timestamps or NoAttr for None) and the
   <time itemprop> and <meta itemprop> tags of the document, in document
   order, with their datetime or content attribute. *)

\* number of <time itemprop> tags and of <meta itemprop> tags of a document
MaxStampTags == 1

\* util.parse_dt_str of the strings at hand: the ISO format of a date that
\* dateutil parses, None of None and of a string it does not parse
ParseDtStr(timestr) ==
    CASE timestr = "2021-01-04" -> "2021-01-04T00:00:00"
      [] timestr = "5 January 2021" -> "2021-01-05T00:00:00"
      [] OTHER -> NoAttr

RECURSIVE FirstParsed(_, _)
\* for tag in self.soup.select("...[itemprop~='name']"): the first value of
\* the attribute that parses, None if there is none
FirstParsed(tags, itemprop) ==
    IF tags = <<>> THEN NoAttr
    ELSE IF Head(tags).itemprop = itemprop /\ ParseDtStr(Head(tags).value) # NoAttr
         THEN ParseDtStr(Head(tags).value)
    ELSE FirstParsed(Tail(tags), itemprop)

\* value if it is there, else the next source
OrElse(value, next) == IF value # NoAttr THEN value ELSE next

\* the method after a step of the chain: it is set whenever the value at
\* hand is not None, whichever step supplied it
MethodAfter(value, method, previous) == IF value # NoAttr THEN method ELSE previous

\* the published timestamp of extract_timestamps and its method
PublishedTimestamp(sources) ==
    LET v1 == sources.json_ld.datePublished
        m1 == MethodAfter(v1, "json_ld", NoAttr)
        v2 == OrElse(v1, sources.ogp.published_time)
        m2 == MethodAfter(v2, "ogp", m1)
        v3 == OrElse(v2, sources.json_ld.dateCreated)
        m3 == MethodAfter(v3, "json_ld", m2)
        v4 == OrElse(v3, FirstParsed(sources.time_tags, "datePublished"))
        m4 == MethodAfter(v4, "time", m3)
        v5 == OrElse(v4, FirstParsed(sources.meta_tags, "datePublished"))
        m5 == MethodAfter(v5, "meta", m4)
    IN [value |-> v5, method |-> m5]

\* the modified timestamp of extract_timestamps and its method
ModifiedTimestamp(sources) ==
    LET v1 == sources.json_ld.dateModified
        m1 == MethodAfter(v1, "json_ld", NoAttr)
        v2 == OrElse(v1, sources.ogp.modified_time)
        m2 == MethodAfter(v2, "ogp", m1)
        v3 == OrElse(v2, FirstParsed(sources.time_tags, "dateModified"))
        m3 == MethodAfter(v3, "time", m2)
        v4 == OrElse(v3, FirstParsed(sources.meta_tags, "dateModified"))
        m4 == MethodAfter(v4, "meta", m3)
    IN [value |-> v4, method |-> m4]

\* the tags with an itemprop at hand
StampTags ==
    [itemprop : {"datePublished", "dateModified"},
     value : {NoAttr, "next week or so", "2021-01-04"}]

MetaStampTags ==
    [itemprop : {"datePublished", "dateModified"},
     value : {NoAttr, "5 January 2021"}]

InitTimestamps ==
    /\ pc = "extract_timestamps"
    /\ err = NoErr
    /\ timestamp_sources \in
           [json_ld : [datePublished : {NoAttr, "2021-01-01T00:00:00"},
                       dateModified : {NoAttr, "2021-01-01T12:00:00"},
                       dateCreated : {NoAttr, "2021-01-03T00:00:00"}],
            ogp : [published_time : {NoAttr, "2021-01-02T00:00:00"},
                   modified_time : {NoAttr, "2021-01-02T12:00:00"}],
            time_tags : ListsUpTo(StampTags, MaxStampTags),
            meta_tags : ListsUpTo(MetaStampTags, MaxStampTags)]
    /\ timestamps = <<>>
    /\ IdleBut({"timestamps"})

\* ArticleExtractor.extract_timestamps, for a page URL that is set
ExtractTimestamps ==
    /\ pc = "extract_timestamps"
    /\ timestamps' = [published |-> PublishedTimestamp(timestamp_sources),
                      modified |-> ModifiedTimestamp(timestamp_sources)]
    /\ pc' = "done"
    /\ UNCHANGED <<err, timestamp_sources>>
    /\ UNCHANGED <<docVars, urlVars, parseVars, keywordVars, ogVars, titleVars>>
    /\ UNCHANGED <<textVars, ancestorVars, pictureVars, authorVars, jsonLdVars, cleanVars>>

NextTimestamps == ExtractTimestamps

SpecTimestamps == InitTimestamps /\ [][NextTimestamps]_vars

\* the source of the priority chain that supplies the published timestamp
PublishedSource(sources) ==
    IF sources.json_ld.datePublished # NoAttr THEN "json_ld"
    ELSE IF sources.ogp.published_time # NoAttr THEN "ogp"
    ELSE IF sources.json_ld.dateCreated # NoAttr THEN "json_ld"
    ELSE IF \E i \in 1..Len(sources.time_tags) :
                /\ sources.time_tags[i].itemprop = "datePublished"
                /\ ParseDtStr(sources.time_tags[i].value) # NoAttr
         THEN "time"
    ELSE IF \E i \in 1..Len(sources.meta_tags) :
                /\ sources.meta_tags[i].itemprop = "datePublished"
                /\ ParseDtStr(sources.meta_tags[i].value) # NoAttr
         THEN "meta"
    ELSE NoAttr

\* the source of the priority chain that supplies the modified timestamp
ModifiedSource(sources) ==
    IF sources.json_ld.dateModified # NoAttr THEN "json_ld"
    ELSE IF sources.ogp.modified_time # NoAttr THEN "ogp"
    ELSE IF \E i \in 1..Len(sources.time_tags) :
                /\ sources.time_tags[i].itemprop = "dateModified"
                /\ ParseDtStr(sources.time_tags[i].value) # NoAttr
         THEN "time"
    ELSE IF \E i \in 1..Len(sources.meta_tags) :
                /\ sources.meta_tags[i].itemprop = "dateModified"
                /\ ParseDtStr(sources.meta_tags[i].value) # NoAttr
         THEN "meta"
    ELSE NoAttr

\* C15: when extract_timestamps has run, the provenance of the published and
\* of the modified timestamp names the source of the priority chain that
\* supplied the value, and it is null exactly when the value is null
C15_ProvenanceNamesSource ==
    pc = "done" =>
        /\ timestamps.published.method = PublishedSource(timestamp_sources)
        /\ timestamps.modified.method = ModifiedSource(timestamp_sources)
        /\ timestamps.published.method = NoAttr <=> timestamps.published.value = NoAttr
        /\ timestamps.modified.method = NoAttr <=> timestamps.modified.value = NoAttr

\* the provenance is null exactly when the value is null
C15_ProvenanceNullWithValue ==
    pc = "done" =>
        /\ timestamps.published.method = NoAttr <=> timestamps.published.value = NoAttr
        /\ timestamps.modified.method = NoAttr <=> timestamps.modified.value = NoAttr

\* a published timestamp that JSON-LD datePublished supplied is marked "meta"
C15_JsonLdMarkedMeta ==
    /\ pc = "done"
    /\ timestamp_sources.json_ld.datePublished # NoAttr
    /\ timestamp_sources.meta_tags = <<>> /\ timestamp_sources.time_tags = <<>>
    /\ timestamps.published.value = timestamp_sources.json_ld.datePublished
    /\ timestamps.published.method = "meta"

\* C16: when get_assets has run _process_link_list, the text of every link
\* item is null or a string that is not empty and has no whitespace at its
\* ends
C16_LinkTextNullOrTrimmed ==
    pc = "done" =>
        \A i \in 1..Len(links_list) :
            \/ links_list[i].text = NullStr
            \/ /\ links_list[i].text # <<>>
               /\ Strip(links_list[i].text) = links_list[i].text

\* a link of whitespace-only text has come out with the empty string as text
C16_BlankTextKept ==
    /\ pc = "done"
    /\ Len(links_list) = 1
    /\ links_list[1].text = <<>>

\* a link without text and a link of text " t" have come out with text null
\* and "t"
C16_TextTrimmed ==
    /\ pc = "done"
    /\ Len(links_list) = 1
    /\ links_list[1].text = <<"t">>

-----------------------------------------------------------------------------
(* Cleaner.clean: the stages it runs, in order.  A stage is named by the
   method called; "smooth" is soup.smooth(), the merge of adjacent text. *)

\* Config.__init__: the flags that clean() reads
CleanFlags ==
    [decompose : BOOLEAN, cssvis : BOOLEAN, replace_breaks : BOOLEAN,
     unwrap_markup : BOOLEAN, get_linkdensity : BOOLEAN]

\* if self.config.decompose: decompose_tags, decompose_comments,
\* decompose_header_footer
DecomposeStages(flags) ==
    IF flags.decompose
    THEN <<"decompose_tags", "decompose_comments", "decompose_header_footer">>
    ELSE <<>>

\* if self.config.cssvis: clear_invisible(self.soup.body)
CssvisStages(flags) == IF flags.cssvis THEN <<"clear_invisible">> ELSE <<>>

\* the two calls the other way round
WhitespaceBeforeSmooth(flags) == <<"remove_whitespace", "smooth">>

\* self.soup.smooth(); self.remove_whitespace()
WhitespaceStages(flags) == <<"smooth", "remove_whitespace">>

\* if self.config.replace_breaks: replace_breaks()
BreakStages(flags) == IF flags.replace_breaks THEN <<"replace_breaks">> ELSE <<>>

\* if self.config.unwrap_markup: unwrap_tags(MARKUP_TAGS); self.soup.smooth()
UnwrapStages(flags) ==
    (IF flags.unwrap_markup THEN <<"unwrap_tags">> ELSE <<>>) \o <<"smooth">>

\* if self.config.get_linkdensity: get_linkdensity(); self.soup.smooth()
LinkdensityStages(flags) ==
    IF flags.get_linkdensity THEN <<"get_linkdensity", "smooth">> ELSE <<>>

\* the statements of clean() in order
CleanSteps == <<"decompose", "cssvis", "whitespace", "replace_breaks", "unwrap_markup",
                "get_linkdensity">>

StagesOfStep(step_name, flags) ==
    CASE step_name = "decompose" -> DecomposeStages(flags)
      [] step_name = "cssvis" -> CssvisStages(flags)
      [] step_name = "whitespace" -> WhitespaceStages(flags)
      [] step_name = "replace_breaks" -> BreakStages(flags)
      [] step_name = "unwrap_markup" -> UnwrapStages(flags)
      [] step_name = "get_linkdensity" -> LinkdensityStages(flags)

RECURSIVE StagesOfSteps(_, _)
\* the stages that clean() runs under the flags
StagesOfSteps(steps, flags) ==
    IF steps = <<>> THEN <<>>
    ELSE StagesOfStep(Head(steps), flags) \o StagesOfSteps(Tail(steps), flags)

CleanStages(flags) == StagesOfSteps(CleanSteps, flags)

InitClean ==
    /\ pc = "decompose"
    /\ err = NoErr
    /\ clean_config \in CleanFlags
    /\ stages = <<>>
    /\ visited = Idle
    /\ IdleBut({"clean"})

\* the statement of clean() that pc names, for a soup that is set
CleanStep(step_name, next) ==
    /\ pc = step_name
    /\ stages' = stages \o StagesOfStep(step_name, clean_config)
    /\ pc' = next
    /\ UNCHANGED <<err, clean_config, visited>>
    /\ UNCHANGED <<docVars, urlVars, parseVars, keywordVars, ogVars, titleVars>>
    /\ UNCHANGED <<textVars, ancestorVars, pictureVars, authorVars, jsonLdVars, timestampVars>>

CleanDecompose == CleanStep("decompose", "cssvis")
CleanCssvis == CleanStep("cssvis", "whitespace")
CleanWhitespace == CleanStep("whitespace", "replace_breaks")
CleanReplaceBreaks == CleanStep("replace_breaks", "unwrap_markup")
CleanUnwrapMarkup == CleanStep("unwrap_markup", "get_linkdensity")
CleanGetLinkdensity == CleanStep("get_linkdensity", "done")

NextClean ==
    \/ CleanDecompose \/ CleanCssvis \/ CleanWhitespace
    \/ CleanReplaceBreaks \/ CleanUnwrapMarkup \/ CleanGetLinkdensity

SpecClean == InitClean /\ [][NextClean]_vars

\* the nine stages in their order
NineStages ==
    <<"decompose_tags", "decompose_comments", "decompose_header_footer",
      "clear_invisible", "smooth", "remove_whitespace", "replace_breaks",
      "unwrap_tags", "get_linkdensity">>

RECURSIVE FirstRuns(_, _)
\* the stages of the run in the order in which each is run first
FirstRuns(run, seen) ==
    IF run = <<>> THEN <<>>
    ELSE IF Head(run) \in seen THEN FirstRuns(Tail(run), seen)
    ELSE <<Head(run)>> \o FirstRuns(Tail(run), seen \cup {Head(run)})

\* the nine stages but those of the set, in their order
NineWithout(skipped) == LET Kept(stage) == stage \notin skipped IN SelectSeq(NineStages, Kept)

\* the stages that the flags disable: the three decompose stages by one
\* flag, clear invisible, replace line breaks, unwrap markup and the link
\* density pass each by its own
DisabledStages(flags) ==
    (IF flags.decompose THEN {}
     ELSE {"decompose_tags", "decompose_comments", "decompose_header_footer"})
        \cup (IF flags.cssvis THEN {} ELSE {"clear_invisible"})
        \cup (IF flags.replace_breaks THEN {} ELSE {"replace_breaks"})
        \cup (IF flags.unwrap_markup THEN {} ELSE {"unwrap_tags"})
        \cup (IF flags.get_linkdensity THEN {} ELSE {"get_linkdensity"})

\* C17 as stated: when clean() has run, its stages have run in the fixed
\* order, and each of the nine stages can be enabled or disabled
\* independently of the others: for each stage there is a configuration
\* under which that stage alone changes between run and skipped
C17_NineTogglesIndependent ==
    pc = "done" =>
        /\ FirstRuns(stages, {}) = NineWithout(SeqToSet(NineStages) \ SeqToSet(stages))
        /\ \A i \in 1..Len(NineStages) :
               \E flags \in CleanFlags :
                   SeqToSet(CleanStages(flags))
                       = IF NineStages[i] \in SeqToSet(stages)
                         THEN SeqToSet(stages) \ {NineStages[i]}
                         ELSE SeqToSet(stages) \cup {NineStages[i]}

\* C17: when clean() has run, its stages have run in the fixed order
\* decompose tags, decompose comments, decompose header/footer, clear
\* invisible, merge adjacent text, remove whitespace, replace line breaks,
\* unwrap markup, link density pass, and the stages skipped are those of
\* the disabled flags: the three decompose stages together, clear
\* invisible, replace line breaks, unwrap markup and the link density pass
\* each alone; merge adjacent text and remove whitespace are never skipped
C17_FiveFlagsToggleStages ==
    pc = "done" => FirstRuns(stages, {}) = NineWithout(DisabledStages(clean_config))

\* clean() has run with decompose disabled and the other flags enabled
C17_Witness ==
    /\ pc = "done"
    /\ ~clean_config.decompose
    /\ clean_config.cssvis /\ clean_config.replace_breaks
    /\ clean_config.unwrap_markup /\ clean_config.get_linkdensity
    /\ stages = <<"clear_invisible", "smooth", "remove_whitespace", "replace_breaks",
                  "unwrap_tags", "smooth", "get_linkdensity", "smooth">>

-----------------------------------------------------------------------------
(* Cleaner.clear_invisible, run twice on the body of a document *)

\* re.fullmatch(r"none(\s!important)?", value) is not None
MatchesNone(value) == value \in {"none", "none !important"}

\* re.fullmatch(r"hidden(\s!important)?", value) is not None
MatchesHidden(value) == value \in {"hidden", "hidden !important"}

\* re.fullmatch(HTML_SMALL_LENGTHS, value) is not None
MatchesSmallLength(value) ==
    value \in {"0", "1", "0px", "1px", "0 !important", "1 !important",
               "0px !important", "1px !important"}

\* Cleaner._is_cssvis_invisible(tag)
IsCssvisInvisible(t, n) ==
    LET attrs == t[n].attrs
        style_dict == attrs.style
        by_style ==
            IF Truthy(style_dict.display) THEN MatchesNone(style_dict.display)
            ELSE IF Truthy(style_dict.visibility)
                 THEN MatchesHidden(style_dict.visibility)
            ELSE IF Truthy(style_dict.width) THEN MatchesSmallLength(style_dict.width)
            ELSE IF Truthy(style_dict.height) THEN MatchesSmallLength(style_dict.height)
            ELSE style_dict.opacity \in {"0", "0 !important"}
        by_size ==
            IF Truthy(attrs.width) THEN MatchesSmallLength(attrs.width)
            ELSE IF Truthy(attrs.height) THEN MatchesSmallLength(attrs.height)
            ELSE attrs.role \in {"presentation", "none"}
    IN attrs.hidden # NoAttr \/ by_style \/ by_size

RECURSIVE ClearInvisibleFrom(_, _, _)
\* Cleaner.clear_invisible(tag), from the i-th step of "for child_node in
\* tag.contents": the list iterator reads tag.contents[i] of the list as it
\* is at that step, and decompose() takes the child out of that list
ClearInvisibleFrom(t, tag, i) ==
    IF i > Len(t[tag].contents) THEN t
    ELSE LET child_node == t[tag].contents[i]
         IN IF ~IsTag(t, child_node) THEN ClearInvisibleFrom(t, tag, i + 1)
            ELSE IF IsCssvisInvisible(t, child_node)
                 THEN ClearInvisibleFrom(Decompose(t, child_node), tag, i + 1)
                 ELSE ClearInvisibleFrom(ClearInvisibleFrom(t, child_node, 1), tag, i + 1)

\* Cleaner.clear_invisible(tag)
ClearInvisibleTree(t, tag) == ClearInvisibleFrom(t, tag, 1)

\* the node kinds of the documents clear_invisible is run on
CssvisKinds == {Kind(TextName, NoAttr, <<"x">>), Kind("div", NoAttr, <<>>)}

\* the attributes of their elements: none, hidden, style="display:none",
\* style="display:block;visibility:hidden", width="0", role="presentation"
CssvisAttrs ==
    {NoAttrs,
     [NoAttrs EXCEPT !.hidden = ""],
     [NoAttrs EXCEPT !.style = [NoStyle EXCEPT !.display = "none"]],
     [NoAttrs EXCEPT !.style = [NoStyle EXCEPT !.display = "block",
                                               !.visibility = "hidden"]],
     [NoAttrs EXCEPT !.width = "0"],
     [NoAttrs EXCEPT !.role = "presentation"]}

\* the tree with the attributes given to its elements
WithAttrs(t, k, attrs_of) ==
    [n \in NodeIds |->
        IF n \in ContentIds(k) /\ IsTag(t, n) THEN [t[n] EXCEPT !.attrs = attrs_of[n]]
        ELSE t[n]]

InitCssvis ==
    /\ \E k \in 0..MaxContent : \E pv \in Shapes(k) :
           \E ks \in [ContentIds(k) -> CssvisKinds] :
               /\ WellFormed(pv, k, ks)
               /\ \E attrs_of \in [ContentIds(k) -> CssvisAttrs] :
                      /\ \A n \in ContentIds(k) :
                             ks[n].name = TextName => attrs_of[n] = NoAttrs
                      /\ soup = WithAttrs(BuildSoup(pv, k, ks), k, attrs_of)
    /\ config = DefaultConfig
    /\ base_tag = None
    /\ top_tag = None
    /\ pc = "clear_invisible"
    /\ err = NoErr
    /\ IdleBut({"doc"})

\* self.clear_invisible(self.soup.body), a first and a second time
ClearInvisible ==
    /\ pc \in {"clear_invisible", "cleared"}
    /\ soup' = ClearInvisibleTree(soup, Body)
    /\ pc' = IF pc = "clear_invisible" THEN "cleared" ELSE "cleared_again"
    /\ UNCHANGED <<config, base_tag, top_tag, err>>
    /\ UNCHANGED <<urlVars, parseVars, keywordVars, ogVars, titleVars, moreVars>>

NextCssvis == ClearInvisible

SpecCssvis == InitCssvis /\ [][NextCssvis]_vars

\* the elements below <body> that _is_cssvis_invisible holds of
InvisibleBelowBody(t) ==
    {n \in SeqToSet(Descendants(t, Body)) : IsTag(t, n) /\ IsCssvisInvisible(t, n)}

\* C19: when clear_invisible(body) returns, no element below the body
\* satisfies _is_cssvis_invisible, and a second run of clear_invisible(body)
\* leaves the tree as it is
C19_NoInvisibleLeft ==
    [][/\ pc' \in {"cleared", "cleared_again"} => InvisibleBelowBody(soup') = {}
       /\ pc = "cleared" => soup' = soup]_vars

\* the second of two invisible siblings is still there when clear_invisible
\* returns
C19_SiblingSkipped ==
    /\ pc = "cleared"
    /\ \E n \in InvisibleBelowBody(soup) :
           /\ soup[n].parent = Body
           /\ soup[Body].contents = <<n>>

-----------------------------------------------------------------------------
(* Cleaner.decompose_header_footer *)

\* settings.SECTIONING_TAGS
SECTIONING_TAGS == {"article", "aside", "nav", "section"}

\* all(x not in set(p.name for p in element.parents) for x in SECTIONING_TAGS)
NoSectioningParent(t, element) ==
    \A i \in 1..Len(Parents(t, element)) :
        t[Parents(t, element)[i]].name \notin SECTIONING_TAGS

RECURSIVE HeaderFooterLoop(_, _, _, _, _)
\* the while loop of decompose_header_footer: the tree, the queue, the two
\* flags, and the elements taken from the front of the queue so far
HeaderFooterLoop(t, queue, header_found, footer_found, popped) ==
    IF queue = <<>> \/ (header_found /\ footer_found)
    THEN [soup |-> t, visited |-> popped]
    ELSE LET element == Head(queue)
             rest == Tail(queue)
             is_header == IsTag(t, element) /\ ~header_found /\ t[element].name = "header"
             is_footer == IsTag(t, element) /\ ~footer_found /\ t[element].name = "footer"
             header_now == header_found \/ is_header
             footer_now == footer_found \/ is_footer
         IN IF (is_header \/ is_footer) /\ NoSectioningParent(t, element)
            THEN HeaderFooterLoop(Decompose(t, element), rest, header_now, footer_now,
                                  Append(popped, element))
            ELSE HeaderFooterLoop(t, rest \o t[element].contents, header_now, footer_now,
                                  Append(popped, element))

\* Cleaner.decompose_header_footer(): queue = [self.soup], nothing found yet
DecomposeHeaderFooterResult(t) == HeaderFooterLoop(t, <<Root>>, FALSE, FALSE, <<>>)

\* the node kinds of the documents decompose_header_footer is run on
HeaderFooterKinds ==
    {Kind(TextName, NoAttr, <<"x">>), Kind("div", NoAttr, <<>>),
     Kind("article", NoAttr, <<>>), Kind("header", NoAttr, <<>>),
     Kind("footer", NoAttr, <<>>)}

InitHeaderFooter ==
    /\ IsDocument(soup, HeaderFooterKinds)
    /\ config = DefaultConfig
    /\ base_tag = None
    /\ top_tag = None
    /\ visited = <<>>
    /\ clean_config = Idle
    /\ stages = Idle
    /\ pc = "decompose_header_footer"
    /\ err = NoErr
    /\ IdleBut({"doc", "clean"})

\* self.decompose_header_footer()
DecomposeHeaderFooter ==
    /\ pc = "decompose_header_footer"
    /\ LET r == DecomposeHeaderFooterResult(soup)
       IN soup' = r.soup /\ visited' = r.visited
    /\ pc' = "done"
    /\ UNCHANGED <<config, base_tag, top_tag, err, clean_config, stages>>
    /\ UNCHANGED <<urlVars, parseVars, keywordVars, ogVars, titleVars>>
    /\ UNCHANGED <<textVars, ancestorVars, pictureVars, authorVars, jsonLdVars, timestampVars>>

NextHeaderFooter == DecomposeHeaderFooter

SpecHeaderFooter == InitHeaderFooter /\ [][NextHeaderFooter]_vars

RECURSIVE FirstUnsectionedLoop(_, _, _, _)
\* a breadth-first search that removes the first header and the first footer
\* among those without a sectioning ancestor, and does not go below what it
\* removed
FirstUnsectionedLoop(t, queue, header_found, footer_found) ==
    IF queue = <<>> \/ (header_found /\ footer_found) THEN t
    ELSE LET element == Head(queue)
             rest == Tail(queue)
             unsectioned == IsTag(t, element) /\ NoSectioningParent(t, element)
             is_header == unsectioned /\ ~header_found /\ t[element].name = "header"
             is_footer == unsectioned /\ ~footer_found /\ t[element].name = "footer"
         IN IF is_header \/ is_footer
            THEN FirstUnsectionedLoop(Decompose(t, element), rest,
                                      header_found \/ is_header, footer_found \/ is_footer)
            ELSE FirstUnsectionedLoop(t, rest \o t[element].contents,
                                      header_found, footer_found)

\* the elements of the given name that the call destroyed and whose parent
\* it left in place
RemovedTops(before, after, name) ==
    {n \in LiveTags(before) :
        /\ before[n].name = name
        /\ after[n].name = Decomposed
        /\ after[before[n].parent].name # Decomposed}

\* C20: decompose_header_footer() removes the first header, and the first
\* footer, in breadth-first order among those with no article, aside, nav or
\* section ancestor, whatever headers and footers with such an ancestor come
\* earlier; it removes at most one of each and never takes from the queue a
\* child of an element it removed
C20_FirstUnsectionedRemoved ==
    [][pc' = "done" =>
          /\ soup' = FirstUnsectionedLoop(soup, <<Root>>, FALSE, FALSE)
          /\ Cardinality(RemovedTops(soup, soup', "header")) <= 1
          /\ Cardinality(RemovedTops(soup, soup', "footer")) <= 1
          /\ \A i \in 1..Len(visited') :
                 soup'[visited'[i]].name = Decomposed =>
                     soup'[soup[visited'[i]].parent].name # Decomposed]_vars

\* a header with a sectioning ancestor came first in breadth-first order, and
\* the header without one that came after it is still in the tree
C20_LaterHeaderKept ==
    /\ pc = "done"
    /\ \E n \in LiveTags(soup) :
           /\ soup[n].name = "header"
           /\ NoSectioningParent(soup, n)
           /\ \E i, j \in 1..Len(visited) :
                  /\ i < j
                  /\ visited[j] = n
                  /\ soup[visited[i]].name = "header"
                  /\ ~NoSectioningParent(soup, visited[i])

-----------------------------------------------------------------------------
(* ArticleExtractor._get_lowest_common_ancestor on its own *)

\* length of the longest tag_list handed to a common-ancestor method
MaxTargets == 3

\* the node kinds of the documents a common ancestor is sought in: text,
\* paragraphs, and <div> without an id and with id="main"
AncestorKinds ==
    {Kind(TextName, NoAttr, <<"x">>), Kind("p", NoAttr, <<>>),
     Kind("div", NoAttr, <<>>), Kind("div", "main", <<>>)}

\* the lists of two to n different elements among the given ones
RECURSIVE ListsOfDistinct(_, _)
ListsOfDistinct(elements, n) ==
    IF n = 0 THEN {<<>>}
    ELSE {<<>>} \cup {<<e>> \o rest : e \in elements,
                                      rest \in ListsOfDistinct(elements, n - 1)}

NoRepeat(s) == \A i, j \in 1..Len(s) : s[i] = s[j] => i = j

\* the tag lists of a document: two or more different elements at or below
\* <body>
TargetLists(t) ==
    {s \in ListsOfDistinct(LiveTags(t) \ {Root, Html}, MaxTargets) :
        Len(s) >= 2 /\ NoRepeat(s)}

InitLca ==
    /\ IsDocument(soup, AncestorKinds)
    /\ targets \in TargetLists(soup)
    /\ found_ancestor = None
    /\ survivors = Idle
    /\ config = DefaultConfig
    /\ base_tag = None
    /\ top_tag = None
    /\ pc = "get_lowest_common_ancestor"
    /\ err = NoErr
    /\ IdleBut({"doc", "ancestor"})

\* self._get_lowest_common_ancestor(tag_list)
GetLca ==
    /\ pc = "get_lowest_common_ancestor"
    /\ found_ancestor' = GetLowestCommonAncestor(soup, targets)
    /\ pc' = "done"
    /\ UNCHANGED <<err, docVars, targets, survivors>>
    /\ UNCHANGED <<urlVars, parseVars, keywordVars, ogVars, titleVars>>
    /\ UNCHANGED <<textVars, pictureVars, authorVars, jsonLdVars, timestampVars, cleanVars>>

NextLca == GetLca

SpecLca == InitLca /\ [][NextLca]_vars

\* the element is every target or above it, by node identity
CoversTargets(t, element, tags) ==
    element # None /\ \A i \in 1..Len(tags) : InSubtree(t, tags[i], element)

\* C21: _get_lowest_common_ancestor returns an element that contains every
\* listed element, as itself or as a descendant, and no proper descendant of
\* which does; also with equal-looking elements in the tree and with a listed
\* element above another
C21_LowestCommonAncestor ==
    pc = "done" =>
        /\ CoversTargets(soup, found_ancestor, targets)
        /\ \A n \in SeqToSet(Descendants(soup, found_ancestor)) :
               ~CoversTargets(soup, n, targets)

\* a listed element is the parent of the other one, and the element
\* returned is the parent of both
C21_AboveListedAncestor ==
    /\ pc = "done"
    /\ Len(targets) = 2
    /\ soup[targets[2]].parent = targets[1]
    /\ found_ancestor = soup[targets[1]].parent

\* the element returned looks like an ancestor of a listed element but does
\* not contain it
C21_TwinInsteadOfAncestor ==
    /\ pc = "done"
    /\ found_ancestor # None
    /\ ~CoversTargets(soup, found_ancestor, targets)

-----------------------------------------------------------------------------
(* ArticleExtractor._get_best_common_ancestor on its own, over annotated
   documents *)

\* the node kinds of the documents: text, images, paragraphs, and <div>
\* without an id and with id="main"
BestAncestorKinds == AncestorKinds \cup {Kind("img", NoAttr, <<>>)}

\* the values of MAX_LEVELS it is run with
LevelBounds == {1, 2}

\* current_tag_list when the while loop is left, or the exception raised in it
SurvivingTargets(t, tag_list, max_levels) ==
    IF Len(tag_list) < 2 THEN [tags |-> tag_list, err |-> NoErr]
    ELSE DescendLoop(t, GetLowestCommonAncestor(t, tag_list), tag_list, max_levels, TRUE)

InitBca ==
    /\ \E k \in 0..MaxContent : \E pv \in Shapes(k) :
           \E ks \in [ContentIds(k) -> BestAncestorKinds] :
               /\ WellFormed(pv, k, ks)
               /\ soup = GetLinkdensityTree(BuildSoup(pv, k, ks))
    /\ targets \in TargetLists(soup)
    /\ found_ancestor = None
    /\ survivors = <<>>
    /\ \E m \in LevelBounds : config = [DefaultConfig EXCEPT !.MAX_LEVELS = m]
    /\ base_tag = None
    /\ top_tag = None
    /\ pc = "get_best_common_ancestor"
    /\ err = NoErr
    /\ IdleBut({"doc", "ancestor"})

\* self._get_best_common_ancestor(tag_list)
GetBca ==
    /\ pc = "get_best_common_ancestor"
    /\ found_ancestor' = GetBestCommonAncestor(soup, targets, config.MAX_LEVELS).tag
    /\ survivors' = SurvivingTargets(soup, targets, config.MAX_LEVELS).tags
    /\ err' = GetBestCommonAncestor(soup, targets, config.MAX_LEVELS).err
    /\ pc' = IF err' = NoErr THEN "done" ELSE "failed"
    /\ UNCHANGED <<docVars, targets>>
    /\ UNCHANGED <<urlVars, parseVars, keywordVars, ogVars, titleVars>>
    /\ UNCHANGED <<textVars, pictureVars, authorVars, jsonLdVars, timestampVars, cleanVars>>

NextBca == GetBca

SpecBca == InitBca /\ [][NextBca]_vars

\* the number of levels from the element down to the tag below or at it
LevelsBelow(t, element, tag) ==
    IF tag = element THEN 0 ELSE IndexOf(element, Parents(t, tag))

\* C22: _get_best_common_ancestor returns for every tag list and every
\* positive MAX_LEVELS, and what it returns is a common ancestor-or-self of
\* the surviving targets at most MAX_LEVELS levels above each of them
C22_NearCommonAncestor ==
    pc # "get_best_common_ancestor" =>
        /\ pc = "done"
        /\ CoversTargets(soup, found_ancestor, survivors)
        /\ \A i \in 1..Len(survivors) :
               LevelsBelow(soup, found_ancestor, survivors[i]) <= config.MAX_LEVELS

\* no child of current covers a target with characters: the loop reads
\* best_candidate_tag_list before anything was assigned to it
C22_NoCandidate == pc = "failed" /\ err = "UnboundLocalError"

\* the element returned lies more than MAX_LEVELS above a surviving target
C22_TooFarAbove ==
    /\ pc = "done"
    /\ CoversTargets(soup, found_ancestor, survivors)
    /\ \E i \in 1..Len(survivors) :
           LevelsBelow(soup, found_ancestor, survivors[i]) > config.MAX_LEVELS

-----------------------------------------------------------------------------
(* ArticleExtractor.remove_high_linkdensity_sections *)

\* copy.copy(tag): the tag and everything below it, with their attributes, in a
\* tree of their own.  The copy of a node keeps the node's id.
CopyTag(t, tag) ==
    LET kept == {tag} \cup SeqToSet(Descendants(t, tag))
    IN [n \in NodeIds |->
           IF n = tag THEN [t[n] EXCEPT !.parent = None]
           ELSE IF n \in kept THEN t[n]
           ELSE UnusedNode]

\* SECTIONING_TAGS of remove_high_linkdensity_sections
HIGH_LINKDENSITY_SECTIONING_TAGS == {"section", "div", "ol", "ul"}

\* float(link_density) > self.config.LINKDENSITY_UPPERBOUND
HasHighLinkdensity(t, n, cfg) ==
    FracGreater(t[n].attrs.linkdensity, cfg.LINKDENSITY_UPPERBOUND)

\* a faulty search: only the children of the tag are looked at, as with
\* tag.find_all(SECTIONING_TAGS, recursive=False)
FirstHighLinkdensityChild(t, tag, cfg) ==
    LET Test(x) ==
            /\ t[x].name \in HIGH_LINKDENSITY_SECTIONING_TAGS
            /\ t[x].attrs.linkdensity = NoDensity \/ HasHighLinkdensity(t, x, cfg)
        found == SelectSeq(ChildTags(t, tag), Test)
    IN IF found = <<>> THEN None ELSE found[1]

\* the sectioning tag at which the for loop stops: the first one in
\* tag.find_all(SECTIONING_TAGS) without the annotation (float(None) raises) or
\* with a link density above the bound; None when the loop runs to its end
FirstHighLinkdensitySection(t, tag, cfg) ==
    LET Test(x) == t[x].attrs.linkdensity = NoDensity \/ HasHighLinkdensity(t, x, cfg)
        found == SelectSeq(FindAll(t, tag, HIGH_LINKDENSITY_SECTIONING_TAGS), Test)
    IN IF found = <<>> THEN None ELSE found[1]

RECURSIVE RemoveHighLinkdensitySections(_, _, _)
\* remove_high_linkdensity_sections(tag): the tree it leaves, or the exception
RemoveHighLinkdensitySections(t, tag, cfg) ==
    LET x == FirstHighLinkdensitySection(t, tag, cfg)
    IN IF x = None THEN [t |-> t, err |-> NoErr]
       ELSE IF t[x].attrs.linkdensity = NoDensity THEN [t |-> t, err |-> "TypeError"]
       ELSE RemoveHighLinkdensitySections(Decompose(t, x), tag, cfg)

\* the node kinds of the sections: text, anchors, paragraphs, <div> and <ul>
SectionKinds ==
    {Kind(TextName, NoAttr, <<"x">>), Kind("a", NoAttr, <<>>),
     Kind("p", NoAttr, <<>>), Kind("div", NoAttr, <<>>), Kind("ul", NoAttr, <<>>)}

\* the state in which get_article_text calls the method: a cleaned and
\* annotated document, and the copy of one of its elements
InitSections ==
    /\ \E k \in 0..MaxContent : \E pv \in Shapes(k) :
           \E ks \in [ContentIds(k) -> SectionKinds] :
               /\ WellFormed(pv, k, ks)
               /\ soup = GetLinkdensityTree(BuildSoup(pv, k, ks))
    /\ config = DefaultConfig
    /\ base_tag = None
    /\ top_tag \in LiveTags(soup) \ {Root, Html}
    /\ article_copy = CopyTag(soup, top_tag)
    /\ article_text = Idle
    /\ inline_links_list = Idle
    /\ last_call = Idle
    /\ pc = "remove_high_linkdensity_sections"
    /\ err = NoErr
    /\ IdleBut({"doc", "text"})

\* one iteration of the while loop in which the for loop breaks: the first
\* sectioning tag with a link density above the bound is decomposed
RemoveSection ==
    /\ pc = "remove_high_linkdensity_sections"
    /\ LET x == FirstHighLinkdensitySection(article_copy, top_tag, config)
       IN /\ x # None
          /\ IF article_copy[x].attrs.linkdensity = NoDensity
             THEN /\ err' = "TypeError"
                  /\ pc' = "failed"
                  /\ UNCHANGED article_copy
             ELSE /\ article_copy' = Decompose(article_copy, x)
                  /\ UNCHANGED <<pc, err>>
    /\ UNCHANGED <<docVars, article_text, inline_links_list, last_call>>
    /\ UNCHANGED <<urlVars, parseVars, keywordVars, ogVars, titleVars>>
    /\ UNCHANGED <<ancestorVars, pictureVars, authorVars, jsonLdVars, timestampVars, cleanVars>>

\* the iteration in which the for loop runs to its end: return tag
ReturnSections ==
    /\ pc = "remove_high_linkdensity_sections"
    /\ FirstHighLinkdensitySection(article_copy, top_tag, config) = None
    /\ pc' = "done"
    /\ UNCHANGED <<err, docVars, textVars>>
    /\ UNCHANGED <<urlVars, parseVars, keywordVars, ogVars, titleVars>>
    /\ UNCHANGED <<ancestorVars, pictureVars, authorVars, jsonLdVars, timestampVars, cleanVars>>

NextSections == RemoveSection \/ ReturnSections

SpecSections == InitSections /\ [][NextSections]_vars

\* the method is one sequential loop: an iteration that can run does run
FairSpecSections == SpecSections /\ WF_vars(NextSections)

\* the nodes of the copy
LiveIn(t, tag) == {tag} \cup SeqToSet(Descendants(t, tag))

\* the sectioning descendants of the tag with a memoized link density above
\* the bound
HighSections(t, tag, cfg) ==
    {x \in SeqToSet(FindAll(t, tag, HIGH_LINKDENSITY_SECTIONING_TAGS)) :
        HasHighLinkdensity(t, x, cfg)}

\* every node the step removed was a high-density sectioning descendant or lay
\* inside one
RemovedWithCause ==
    \A n \in LiveIn(article_copy, top_tag) \ LiveIn(article_copy', top_tag) :
        \E x \in HighSections(article_copy, top_tag, config) :
            InSubtree(article_copy, n, x)

\* C28: remove_high_linkdensity_sections(tag) terminates on every annotated
\* subtree; when it returns, no section, div, ol or ul below the tag has a
\* memoized link density above the bound and the tag itself is still there;
\* every node removed on the way was such a descendant or lay inside one
C28_HighSectionsRemoved ==
    /\ <>(pc = "done")
    /\ [](pc = "done" =>
            /\ HighSections(article_copy, top_tag, config) = {}
            /\ IsTag(article_copy, top_tag))
    /\ [][RemovedWithCause]_vars

\* the method has returned after removing a section that held another
C28_Witness ==
    /\ pc = "done"
    /\ \E x \in LiveIn(soup, top_tag) \ LiveIn(article_copy, top_tag) :
           /\ soup[x].name \in HIGH_LINKDENSITY_SECTIONING_TAGS
           /\ soup[x].parent \notin LiveIn(article_copy, top_tag)
    /\ article_copy[top_tag].contents # <<>>

-----------------------------------------------------------------------------
(* ArticleExtractor._process_paragraph_tag *)

\* settings.MARKUP_TAGS
MARKUP_TAGS ==
    {"abbr", "b", "bdi", "bdo", "cite", "code", "data", "dfn", "em", "i", "kbd",
     "mark", "q", "rb", "rp", "rt", "rtc", "ruby", "s", "samp", "small",
     "strong", "sub", "sup", "u", "var", "del", "ins"}

\* settings.LEFT_NOSPACE_PUNCTUATION and settings.RIGHT_NOSPACE_PUNCTUATION:
\* their characters of Basic Latin
LEFT_NOSPACE_PUNCTUATION == {"\"", "$", "'", "(", "-", "/", "[", "{"}

RIGHT_NOSPACE_PUNCTUATION ==
    {"!", "\"", "%", "'", ")", "*", ",", "-", ".", "/", ":", ";", "?", "]", "}"}

RECURSIVE ConcatStrings(_, _)
ConcatStrings(t, nodes) ==
    IF nodes = <<>> THEN <<>>
    ELSE IF IsNString(t, Head(nodes))
         THEN t[Head(nodes)].string \o ConcatStrings(t, Tail(nodes))
         ELSE ConcatStrings(t, Tail(nodes))

\* tag.get_text(): the strings below the tag, in document order, joined
GetText(t, tag) == ConcatStrings(t, Descendants(t, tag))

RECURSIVE MergeStrings(_, _, _)
\* the loops of Tag.smooth over tag.contents: a string that follows a string is
\* taken out and its characters are added to the one before
MergeStrings(t, kids, done) ==
    IF kids = <<>> THEN [t |-> t, contents |-> done]
    ELSE IF done # <<>> /\ IsNString(t, done[Len(done)]) /\ IsNString(t, Head(kids))
         THEN MergeStrings([t EXCEPT ![done[Len(done)]].string = @ \o t[Head(kids)].string,
                                     ![Head(kids)] = GoneNode],
                           Tail(kids), done)
         ELSE MergeStrings(t, Tail(kids), Append(done, Head(kids)))

SmoothContents(r, n) == [r.t EXCEPT ![n].contents = r.contents]

RECURSIVE SmoothAll(_, _)
SmoothAll(t, tags) ==
    IF tags = <<>> THEN t
    ELSE SmoothAll(SmoothContents(MergeStrings(t, t[Head(tags)].contents, <<>>),
                                  Head(tags)),
                   Tail(tags))

\* tag.smooth(): adjacent strings are joined, in the tag and below it
Smooth(t, tag) == SmoothAll(t, <<tag>> \o FindAllTags(t, tag))

RECURSIVE Reparent(_, _, _)
Reparent(t, kids, parent) ==
    IF kids = <<>> THEN t
    ELSE Reparent([t EXCEPT ![Head(kids)].parent = parent], Tail(kids), parent)

\* tag.unwrap(): the contents of the tag take its place in its parent; the
\* tag is left empty and detached
Unwrap(t, n) ==
    LET p == t[n].parent
        i == IndexOf(n, t[p].contents)
        moved == Reparent(t, t[n].contents, p)
    IN [moved EXCEPT
           ![p].contents = SubSeq(@, 1, i - 1) \o t[n].contents \o SubSeq(@, i + 1, Len(@)),
           ![n].parent = None,
           ![n].contents = <<>>]

\* bool(node) of a sibling: None and the empty string are false
TruthyNode(t, n) == n # None /\ (IsTag(t, n) \/ t[n].string # <<>>)

RECURSIVE LeftOf(_, _, _)
\* the first while loop of the text formatting: the previous sibling of the
\* markup tag, or of its nearest ancestor below tag that has one
LeftOf(t, tag, current) ==
    IF TruthyNode(t, PreviousSibling(t, current)) THEN PreviousSibling(t, current)
    ELSE IF t[current].parent = tag THEN None
    ELSE LeftOf(t, tag, t[current].parent)

RECURSIVE RightOf(_, _, _)
\* the second while loop, with next_sibling
RightOf(t, tag, current) ==
    IF TruthyNode(t, NextSibling(t, current)) THEN NextSibling(t, current)
    ELSE IF t[current].parent = tag THEN None
    ELSE RightOf(t, tag, t[current].parent)

RECURSIVE RightmostIn(_, _)
\* while isinstance(left, Tag): left = left.contents[-1], unless it is empty
RightmostIn(t, left) ==
    IF IsTag(t, left) /\ t[left].contents # <<>>
    THEN RightmostIn(t, t[left].contents[Len(t[left].contents)])
    ELSE left

RECURSIVE LeftmostIn(_, _)
\* while isinstance(right, Tag): right = right.contents[0], unless it is empty
LeftmostIn(t, right) ==
    IF IsTag(t, right) /\ t[right].contents # <<>>
    THEN LeftmostIn(t, t[right].contents[1])
    ELSE right

\* newleft: left.rstrip(), with a space unless it is empty or ends with an
\* opening punctuation mark
NewLeft(string) ==
    LET newleft == RStrip(string)
    IN IF newleft # <<>> /\ newleft[Len(newleft)] \notin LEFT_NOSPACE_PUNCTUATION
       THEN newleft \o <<" ">> ELSE newleft

\* newright: right.lstrip(), after a space unless it is empty or starts with a
\* closing punctuation mark
NewRight(string) ==
    LET newright == LStrip(string)
    IN IF newright # <<>> /\ newright[1] \notin RIGHT_NOSPACE_PUNCTUATION
       THEN <<" ">> \o newright ELSE newright

\* left.replace_with(newleft) when left leads to a string
FormatLeft(t, left) ==
    IF left # None /\ IsNString(t, RightmostIn(t, left))
    THEN [t EXCEPT ![RightmostIn(t, left)].string = NewLeft(@)]
    ELSE t

\* right.replace_with(newright) when right leads to a string
FormatRight(t, right) ==
    IF right # None /\ IsNString(t, LeftmostIn(t, right))
    THEN [t EXCEPT ![LeftmostIn(t, right)].string = NewRight(@)]
    ELSE t

\* the text formatting on both sides of a markup tag
FormatAround(t, tag, markup_tag) ==
    LET t1 == FormatLeft(t, LeftOf(t, tag, markup_tag))
    IN FormatRight(t1, RightOf(t1, tag, markup_tag))

\* the link object of an anchor; the anchors of the model have no href
InlineLink(t, markup_tag) == [text |-> GetText(t, markup_tag), url |-> NullUrl]

RECURSIVE ProcessMarkupTags(_, _, _, _)
\* the for loop of _process_paragraph_tag over tag.find_all(MARKUP_TAGS + ["a"])
ProcessMarkupTags(t, tag, markup_tags, links) ==
    IF markup_tags = <<>> THEN [t |-> t, links |-> links]
    ELSE ProcessMarkupTags(
             Unwrap(FormatAround(t, tag, Head(markup_tags)), Head(markup_tags)),
             tag, Tail(markup_tags),
             IF t[Head(markup_tags)].name = "a"
             THEN Append(links, InlineLink(t, Head(markup_tags))) ELSE links)

SmoothAfter(r, tag) == [t |-> Smooth(r.t, tag), links |-> r.links]

ProcessSmoothed(t, tag, links) ==
    SmoothAfter(ProcessMarkupTags(t, tag, FindAll(t, tag, MARKUP_TAGS \cup {"a"}), links),
                tag)

\* ArticleExtractor._process_paragraph_tag(tag): the tree it leaves and
\* inline_links_list with the anchors appended
ProcessParagraphTag(t, tag, links) == ProcessSmoothed(Smooth(t, tag), tag, links)

-----------------------------------------------------------------------------
(* ArticleExtractor.get_article_text *)

\* ArticleExtractor.TEXT_TO_COLLECT_LISTS
TEXT_TO_COLLECT_LISTS ==
    <<{"p", "li", "pre", "blockquote", "dt", "dd"},
      {"p", "li", "pre", "blockquote", "dt", "dd", "span"},
      {"p", "li", "pre", "blockquote", "dt", "dd", "span", "div", "section"}>>

\* a faulty first line, top_tag = self.top_tag: the method works on the
\* document itself
WorkingTreeOfDocument(t, tag) == [t |-> t, shared |-> TRUE]

\* top_tag = copy.copy(self.top_tag): the tree the method works on from here,
\* and whether it is the tree of the document
WorkingTree(t, tag) == [t |-> CopyTag(t, tag), shared |-> FALSE]

\* current_sum: sum(int(x.get("_ld_tc")) for x in top_tag.find_all(choices))
CurrentSum(t, top, choices) == SumTc(t, FindAll(t, top, choices))

\* ratio >= self.config.ARTICLE_TEXT_CHARS_RATIO, where ratio is current_sum /
\* int(top_tag.get("_ld_tc")), or 0.0 after a ZeroDivisionError
RatioReached(t, top, choices, cfg) ==
    /\ t[top].attrs.ld_tc # 0
    /\ ~FracLess(<<CurrentSum(t, top, choices), t[top].attrs.ld_tc>>,
                 cfg.ARTICLE_TEXT_CHARS_RATIO)

RECURSIVE ChoicesLoop(_, _, _, _)
\* the for loop over TEXT_TO_COLLECT_LISTS, from the i-th list on: the first
\* list that reaches the ratio, else the last one
ChoicesLoop(t, top, cfg, i) ==
    IF i > Len(TEXT_TO_COLLECT_LISTS) THEN TEXT_TO_COLLECT_LISTS[Len(TEXT_TO_COLLECT_LISTS)]
    ELSE IF RatioReached(t, top, TEXT_TO_COLLECT_LISTS[i], cfg) THEN TEXT_TO_COLLECT_LISTS[i]
    ELSE ChoicesLoop(t, top, cfg, i + 1)

\* tags_list before the while loop
InitialTagsList(t, top, choices) ==
    IF t[top].name \in choices THEN <<top>> \o FindAll(t, top, choices)
    ELSE FindAll(t, top, choices)

\* skip_check after the for loop over tag.contents; tags_list has lost the tag
TextSkipCheck(t, tag, tags_list) ==
    /\ t[tag].name \notin TEXT_TO_COLLECT_LISTS[1]
    /\ \A i \in 1..Len(t[tag].contents) :
           LET child == t[tag].contents[i] IN
           /\ IsNString(t, child) => AllSpace(t[child].string)
           /\ IsTag(t, child) => ElemIn(t, child, tags_list)

\* list.remove(x): the first element equal to x leaves the list
ListRemove(t, list, x) ==
    LET i == CHOOSE j \in 1..Len(list) :
                 ValueEq(t, list[j], x) /\ \A k \in 1..(j - 1) : ~ValueEq(t, list[k], x)
    IN RemoveAt(list, i)

\* a faulty loop that leaves the descendants of a processed tag in tags_list
KeepDuplicated(t, children, tags_list) == tags_list

RECURSIVE RemoveDuplicated(_, _, _)
\* for child in tag.find_all(choices): if child in tags_list: tags_list.remove(child)
RemoveDuplicated(t, children, tags_list) ==
    IF children = <<>> THEN tags_list
    ELSE IF ElemIn(t, Head(children), tags_list)
         THEN RemoveDuplicated(t, Tail(children), ListRemove(t, tags_list, Head(children)))
         ELSE RemoveDuplicated(t, Tail(children), tags_list)

RECURSIVE SplitWords(_, _, _)
\* str.split(): the words between the runs of whitespace
SplitWords(s, word, words) ==
    IF s = <<>> THEN (IF word = <<>> THEN words ELSE Append(words, word))
    ELSE IF IsSpaceChar(Head(s))
         THEN SplitWords(Tail(s), <<>>, IF word = <<>> THEN words ELSE Append(words, word))
         ELSE SplitWords(Tail(s), Append(word, Head(s)), words)

RECURSIVE JoinWords(_)
\* " ".join(words)
JoinWords(words) ==
    IF words = <<>> THEN <<>>
    ELSE IF Len(words) = 1 THEN words[1]
    ELSE words[1] \o <<" ">> \o JoinWords(Tail(words))

\* " ".join(text.strip().split())
ParagraphText(text) == JoinWords(SplitWords(Strip(text), <<>>, <<>>))

\* if len(text) > 0: text_list.append(text); the tag is noted with its text
AppendText(t, tag, paragraphs) ==
    IF ParagraphText(GetText(t, tag)) = <<>> THEN paragraphs
    ELSE Append(paragraphs, [tag |-> tag, text |-> ParagraphText(GetText(t, tag))])

RECURSIVE TextLoop(_, _, _, _, _)
TextProcessed(r, tag, tags_list, choices, paragraphs) ==
    TextLoop(r.t, tags_list, choices, AppendText(r.t, tag, paragraphs), r.links)

\* the while loop of get_article_text over tags_list: the tree it leaves, the
\* paragraphs collected with the tags they come from, and inline_links_list
TextLoop(t, tags_list, choices, paragraphs, links) ==
    IF tags_list = <<>> THEN [t |-> t, paragraphs |-> paragraphs, links |-> links]
    ELSE IF TextSkipCheck(t, Head(tags_list), Tail(tags_list))
         THEN TextLoop(t, Tail(tags_list), choices, paragraphs, links)
         ELSE TextProcessed(ProcessParagraphTag(t, Head(tags_list), links),
                            Head(tags_list),
                            RemoveDuplicated(t, FindAll(t, Head(tags_list), choices),
                                             Tail(tags_list)),
                            choices, paragraphs)

TextOfChoices(t, top, choices) ==
    TextLoop(t, InitialTagsList(t, top, choices), choices, <<>>, <<>>)

\* get_article_text from the for loop over TEXT_TO_COLLECT_LISTS on, on the
\* tree left by remove_high_linkdensity_sections
TextOfPruned(t, top, cfg) == TextOfChoices(t, top, ChoicesLoop(t, top, cfg, 1))

\* the texts of the paragraphs
TextsOf(paragraphs) == [i \in 1..Len(paragraphs) |-> paragraphs[i].text]

\* if not self.base_tag: self.set_base_tag()
EnsureBaseTag(t, base, cfg) == IF base # None THEN Ok(base) ELSE SetBaseTagResult(t, cfg)

TopTagWithBase(t, b, cfg) ==
    IF b.err # NoErr THEN [base |-> None, tag |-> None, err |-> b.err]
    ELSE IF b.tag = None THEN [base |-> None, tag |-> None, err |-> "AttributeError"]
    ELSE [base |-> b.tag, tag |-> SetTopTagResult(t, b.tag, cfg).tag,
          err |-> SetTopTagResult(t, b.tag, cfg).err]

\* a guard that falls back on the base tag whenever there is one
TopTagReset(t, base, top, cfg) ==
    IF base # None THEN [base |-> base, tag |-> base, err |-> NoErr]
    ELSE TopTagWithBase(t, EnsureBaseTag(t, base, cfg), cfg)

\* if not self.top_tag: self.set_top_tag(), which sets the base tag first if
\* there is none: base_tag and top_tag after it, or the exception
EnsureTopTag(t, base, top, cfg) ==
    IF top # None THEN [base |-> base, tag |-> top, err |-> NoErr]
    ELSE TopTagWithBase(t, EnsureBaseTag(t, base, cfg), cfg)

\* the end of get_article_text: what it leaves in the document, in the copy
\* and in the fields of the extractor
ArticleTextDone(t, tt, shared, r, links) ==
    [soup |-> IF shared THEN r.t ELSE t, copy |-> r.t,
     base |-> tt.base, top |-> tt.tag, err |-> NoErr,
     paragraphs |-> r.paragraphs,
     links |-> ProcessLinkList(links \o r.links, NullUrl)]

\* get_article_text ended by an exception
ArticleTextRaises(t, tt, copy, e, links) ==
    [soup |-> t, copy |-> copy, base |-> tt.base, top |-> tt.tag, err |-> e,
     paragraphs |-> <<>>, links |-> links]

ArticleTextOfPruned(t, tt, shared, pruned, cfg, links) ==
    IF pruned.err # NoErr
    THEN ArticleTextRaises(IF shared THEN pruned.t ELSE t, tt, pruned.t, pruned.err, links)
    ELSE ArticleTextDone(t, tt, shared, TextOfPruned(pruned.t, tt.tag, cfg), links)

ArticleTextOfCopy(t, tt, w, cfg, links) ==
    ArticleTextOfPruned(t, tt, w.shared,
                        RemoveHighLinkdensitySections(w.t, tt.tag, cfg), cfg, links)

ArticleTextWithTop(t, tt, cfg, links) ==
    IF tt.err # NoErr THEN ArticleTextRaises(t, tt, <<>>, tt.err, links)
    ELSE ArticleTextOfCopy(t, tt, WorkingTree(t, tt.tag), cfg, links)

\* ArticleExtractor.get_article_text
GetArticleTextResult(t, base, top, cfg, links) ==
    ArticleTextWithTop(t, EnsureTopTag(t, base, top, cfg), cfg, links)

\* number of content nodes below <body> in a document whose text is collected
MaxArticleContent == 5

\* the node kinds of these documents: text with and without a run of
\* whitespace, anchors, paragraphs and <div>
ArticleKinds ==
    {Kind(TextName, NoAttr, <<"x">>), Kind(TextName, NoAttr, <<" ", "x", " ", " ", "x">>),
     Kind("a", NoAttr, <<>>), Kind("p", NoAttr, <<>>), Kind("div", NoAttr, <<>>)}

\* a cleaned and annotated document in an extractor that has set no tag yet;
\* article_text = None is written <<>>
InitText ==
    /\ \E k \in 0..MaxArticleContent : \E pv \in Shapes(k) :
           \E ks \in [ContentIds(k) -> ArticleKinds] :
               /\ WellFormed(pv, k, ks)
               /\ soup = GetLinkdensityTree(BuildSoup(pv, k, ks))
    /\ config = DefaultConfig
    /\ base_tag = None
    /\ top_tag = None
    /\ article_copy = <<>>
    /\ article_text = <<>>
    /\ inline_links_list = <<>>
    /\ last_call = Idle
    /\ pc = "get_article_text"
    /\ err = NoErr
    /\ IdleBut({"doc", "text"})

ArticleTextStep(r) ==
    /\ soup' = r.soup
    /\ base_tag' = r.base
    /\ top_tag' = r.top
    /\ article_copy' = r.copy
    /\ article_text' = TextsOf(r.paragraphs)
    /\ inline_links_list' = r.links
    /\ err' = r.err

\* ArticleExtractor.get_article_text()
GetArticleText ==
    /\ pc = "get_article_text"
    /\ ArticleTextStep(GetArticleTextResult(soup, base_tag, top_tag, config,
                                            inline_links_list))
    /\ pc' = IF err' = NoErr THEN "done" ELSE "failed"
    /\ UNCHANGED <<config, last_call>>
    /\ UNCHANGED <<urlVars, parseVars, keywordVars, ogVars, titleVars>>
    /\ UNCHANGED <<ancestorVars, pictureVars, authorVars, jsonLdVars, timestampVars, cleanVars>>

NextText == GetArticleText

SpecText == InitText /\ [][NextText]_vars

-----------------------------------------------------------------------------
(* Properties of get_article_text *)

\* the tree without its annotations: what a scoring pass starts from
WithoutAnnotations(t) ==
    [n \in NodeIds |->
        [t[n] EXCEPT !.attrs.ld_tc = NoNum, !.attrs.ld_lc = NoNum,
                     !.attrs.linkdensity = NoDensity]]

\* the total_chars a fresh scoring pass over the tree gives the element
FreshTotalChars(t, n) == GetTotalChars(WithoutAnnotations(t), n).v

\* a fresh scoring pass over the document: the annotations get_linkdensity
\* computes, from the root down
FreshPass(t) ==
    LinkdensityOfAll(GetLinkdensityOf(WithoutAnnotations(t), Root), FindAllTags(t, Root))

\* the copy of top_tag when remove_high_linkdensity_sections has returned
PrunedCopy == RemoveHighLinkdensitySections(CopyTag(soup, top_tag), top_tag, config).t

\* the lists of TEXT_TO_COLLECT_LISTS the for loop gets to
ListsTried(t, top, cfg) ==
    {i \in 1..Len(TEXT_TO_COLLECT_LISTS) :
        \A j \in 1..(i - 1) : ~RatioReached(t, top, TEXT_TO_COLLECT_LISTS[j], cfg)}

\* the elements whose _ld_tc the for loop reads
RatioReads(t, top, cfg) ==
    {top} \cup UNION {SeqToSet(FindAll(t, top, TEXT_TO_COLLECT_LISTS[i])) :
                         i \in ListsTried(t, top, cfg)}

\* set_base_tag and set_top_tag read the annotations of the document
DocumentAnnotationsFresh ==
    \A n \in LiveTags(soup) : soup[n].attrs = FreshPass(soup)[n].attrs

\* C23: an annotation that set_base_tag, set_top_tag or get_article_text reads
\* equals what a fresh scoring pass over the tree as it is then would compute;
\* the character-mass ratio of get_article_text is computed from values that
\* fit the copy after the high-density sections were removed
C23_AnnotationsFresh ==
    pc = "done" =>
        /\ DocumentAnnotationsFresh
        /\ \A n \in RatioReads(PrunedCopy, top_tag, config) :
               PrunedCopy[n].attrs.ld_tc = FreshTotalChars(PrunedCopy, n)

\* a section was removed from the copy, text is collected from what is left,
\* and the ratio was computed with the total the top tag had before
C23_StaleTotal ==
    /\ pc = "done"
    /\ PrunedCopy # CopyTag(soup, top_tag)
    /\ article_text # <<>>
    /\ PrunedCopy[top_tag].attrs.ld_tc > FreshTotalChars(PrunedCopy, top_tag)



\* C24: get_article_text works on a copy of top_tag: removing the high-density
\* sections and unwrapping the markup and anchor elements leaves the document
\* as it was, with the same children, attributes and text in every node
C24_DocumentUnchanged == [][pc = "get_article_text" => soup' = soup]_vars

\* the anchors of the document
Anchors(t, top) == SeqToSet(FindAll(t, top, {"a"}))

\* the method has removed a section from the copy and unwrapped an anchor of
\* it, and both are still in the document
C24_Witness ==
    /\ pc = "done"
    /\ PrunedCopy # CopyTag(soup, top_tag)
    /\ Anchors(PrunedCopy, top_tag) # {}
    /\ Anchors(article_copy, top_tag) = {}
    /\ Anchors(soup, top_tag) # {}




\* the position of a node of the copy in document order
DocumentPosition(t, top, n) == IndexOf(n, <<top>> \o Descendants(t, top))

\* no whitespace at either end and no two whitespace characters in a row
SingleSpaced(text) ==
    /\ text # <<>>
    /\ ~IsSpaceChar(text[1]) /\ ~IsSpaceChar(text[Len(text)])
    /\ \A i \in 1..(Len(text) - 1) : ~(IsSpaceChar(text[i]) /\ IsSpaceChar(text[i + 1]))

\* the paragraphs collected from the tree t come from tags that are not nested
\* and follow each other in document order, and no string of t is below two of
\* them
ParagraphsApart(t, top, paragraphs) ==
    /\ \A i, j \in 1..Len(paragraphs) :
           i < j => /\ ~InSubtree(t, paragraphs[j].tag, paragraphs[i].tag)
                    /\ ~InSubtree(t, paragraphs[i].tag, paragraphs[j].tag)
                    /\ DocumentPosition(t, top, paragraphs[i].tag)
                           < DocumentPosition(t, top, paragraphs[j].tag)
    /\ \A n \in LiveIn(t, top) :
           IsNString(t, n) =>
               Cardinality({i \in 1..Len(paragraphs) :
                               InSubtree(t, n, paragraphs[i].tag)}) <= 1

\* the paragraphs get_article_text collects from the pruned copy, with the
\* tags they come from
EmittedParagraphs == TextOfPruned(PrunedCopy, top_tag, config).paragraphs

\* C25: no two candidates that get_article_text emits are nested, so that no
\* text node of the copy contributes to more than one paragraph; the
\* paragraphs are in document order, none is empty, none starts or ends with
\* whitespace and none has two whitespace characters in a row
C25_ParagraphsApartAndTrimmed ==
    pc = "done" =>
        /\ article_text = TextsOf(EmittedParagraphs)
        /\ ParagraphsApart(PrunedCopy, top_tag, EmittedParagraphs)
        /\ \A i \in 1..Len(article_text) : SingleSpaced(article_text[i])

\* the candidates: tags_list before the while loop
Candidates ==
    InitialTagsList(PrunedCopy, top_tag, ChoicesLoop(PrunedCopy, top_tag, config, 1))

\* two paragraphs were collected, one with its whitespace trimmed, and a
\* candidate was left out
C25_Witness ==
    /\ pc = "done"
    /\ Len(article_text) >= 2
    /\ \E i \in 1..Len(article_text) : article_text[i] = <<"x", " ", "x">>
    /\ Len(Candidates) > Len(EmittedParagraphs)




-----------------------------------------------------------------------------
(* Properties of Cleaner.get_linkdensity *)

\* the elements of the document: self.soup.find_all(True)
Elements(t) == SeqToSet(FindAllTags(t, Root))

\* the element is an image, multimedia or embedded-content element, or has one
\* below it
HoldsMedia(t, n) ==
    \/ t[n].name \in IMAGE_AND_MULTIMEDIA_TAGS \cup EMBEDDED_CONTENT_TAGS
    \/ FindAll(t, n, IMAGE_AND_MULTIMEDIA_TAGS \cup EMBEDDED_CONTENT_TAGS) # <<>>

\* the element has _ld_tc, _ld_lc and _linkdensity
Annotated(t, n) ==
    /\ t[n].attrs.ld_tc # NoNum
    /\ t[n].attrs.ld_lc # NoNum
    /\ t[n].attrs.linkdensity # NoDensity

\* the tree that _decompose_empty is called on: every element has its
\* total_chars, none its link density
ScoredBeforeRemoval(t) ==
    \A n \in Elements(t) :
        /\ t[n].attrs.ld_tc = FreshTotalChars(t, n)
        /\ t[n].attrs.linkdensity = NoDensity

\* C26: when get_linkdensity() has returned, no remaining element has
\* total_chars 0 unless it is an image, multimedia or embedded-content element
\* or has one below it, and every remaining element has the three
\* annotations; the empty elements are removed when total_chars is computed
\* in the whole tree and before the link density of an element is computed
C26_NoEmptyElementLeft ==
    /\ pc = "get_linkdensity" => ScoredBeforeRemoval(GetLinkdensityOf(soup, Root))
    /\ AfterGetLinkdensity =>
           \A n \in Elements(soup) :
               /\ Annotated(soup, n)
               /\ TotalChars(n) = 0 => HoldsMedia(soup, n)

\* get_linkdensity() has removed an element without characters and kept one
\* without characters that holds an image
C26_Witness ==
    /\ AfterGetLinkdensity
    /\ \E n \in NodeIds : soup[n].name = Decomposed
    /\ \E n \in Elements(soup) :
           TotalChars(n) = 0 /\ soup[n].name \notin IMAGE_AND_MULTIMEDIA_TAGS

-----------------------------------------------------------------------------
(* Termination of Cleaner.replace_breaks *)

\* replace_breaks is one sequential loop: an iteration that can run does run
FairSpecBreaks == SpecBreaks /\ WF_vars(NextBreaks)

\* the break elements of the tree
Breaks(t) == {n \in Live(t) : t[n].name = "br"}

\* the step takes one break element out of the tree and puts none in
OneBreakLess ==
    /\ Breaks(soup') \subseteq Breaks(soup)
    /\ Cardinality(Breaks(soup) \ Breaks(soup')) = 1

\* C27: replace_breaks() terminates on every finite tree, and when it returns
\* the tree has no break element; every iteration removes exactly one break
\* element and creates none
C27_BreaksRemovedOneByOne ==
    /\ <>(pc = "get_linkdensity")
    /\ [](pc = "get_linkdensity" => Breaks(soup) = {})
    /\ [][(pc = "replace_breaks" /\ pc' = "replace_breaks") => OneBreakLess]_vars

\* replace_breaks has returned after an iteration that split a parent and one
\* that deleted a break alone
C27_Witness ==
    /\ pc = "get_linkdensity"
    /\ Cardinality({n \in NodeIds : soup[n].name = Decomposed}) >= 3
    /\ \E n \in Live(soup) : n > 3 + MaxContent

-----------------------------------------------------------------------------
(* Properties of _process_sources_in_picture_tag and _process_picture_tag *)

\* C29: _process_sources_in_picture_tag returns a mapping with the key
\* source_src for every <picture>, with the value null when no <source> gives
\* a usable candidate, so that _process_picture_tag merges it with the result
\* of the <img> without an error
C29_SourceSrcAlwaysPresent ==
    pc # "get_pictures" =>
        /\ \A source_dict \in ProcessSourcesInPictureTag(picture_tag.sources) :
               ~source_dict.is_none
        /\ err = NoErr

\* the only <source> of the <picture> has a supported type and a srcset whose
\* one candidate is dropped as too small, and get_pictures has failed
C29_TooSmallOnly ==
    /\ pc = "failed"
    /\ err = "TypeError"
    /\ Len(picture_tag.sources) = 1
    /\ picture_tag.sources[1].type = "image/webp"
    /\ picture_tag.sources[1].srcset = <<Candidate(SourceUrlB, 1, "w")>>

-----------------------------------------------------------------------------
(* Calls of get_pictures, get_assets, get_documents, extract_authors and
   get_article_text on one extractor, in any order.  Each call is one step:
   it sets the tags it finds unset, then scans.  last_call keeps what the
   call read: whether it reached its scan, the containers it scanned and
   the tags its loops were handed.  What the methods make of those tags is
   modelled with the methods themselves. *)

\* number of calls made on one extractor
MaxCalls == 3

\* the node kinds of these documents: text, anchors, paragraphs, <div>, <img>
CallKinds ==
    {Kind(TextName, NoAttr, <<"x">>), Kind("a", NoAttr, <<>>), Kind("p", NoAttr, <<>>),
     Kind("div", NoAttr, <<>>), Kind("img", NoAttr, <<>>)}

\* the names of the find_all loops of get_pictures, get_assets, get_documents
PICTURE_SCANS == <<"figure", "picture", "img">>
ASSET_SCANS == <<"iframe", "video", "embed", "object">>
DOCUMENT_SCANS == <<"a">>

RECURSIVE ScanLoops(_, _, _, _)
\* for x in self.base_tag.find_all(name), one loop after the other: the tags
\* the loops are handed
ScanLoops(t, base, names, i) ==
    IF i > Len(names) THEN <<>>
    ELSE FindAll(t, base, {names[i]}) \o ScanLoops(t, base, names, i + 1)

\* no call made yet
NoCall ==
    [n |-> 0, op |-> "none", called |-> {}, scanned |-> FALSE,
     containers |-> <<>>, found |-> <<>>]

\* the record of one more call
CallOf(op, scan) ==
    [n |-> last_call.n + 1, op |-> op, called |-> last_call.called \cup {op},
     scanned |-> scan.scanned, containers |-> scan.containers, found |-> scan.found]

NoScan == [scanned |-> FALSE, containers |-> <<>>, found |-> <<>>]

\* a method that scans self.base_tag, b being the outcome of
\* "if not self.base_tag: self.set_base_tag()"
BaseScan(t, base, b, names) ==
    IF b.err # NoErr THEN [base |-> base, err |-> b.err, scan |-> NoScan]
    ELSE IF b.tag = None THEN [base |-> base, err |-> "AttributeError", scan |-> NoScan]
    ELSE [base |-> b.tag, err |-> NoErr,
          scan |-> [scanned |-> TRUE, containers |-> <<b.tag>>,
                    found |-> ScanLoops(t, b.tag, names, 1)]]

\* the head of extract_authors: base_tag and top_tag after it, or the exception
AuthorsTags(t, base, top, cfg, b) ==
    IF b.err # NoErr THEN [base |-> base, tag |-> top, err |-> b.err]
    ELSE EnsureTopTag(t, b.tag, top, cfg)

\* the loop of extract_authors over its containers; the nodes of CallKinds
\* carry no attribute, so that no selector matches
AuthorsScan(tt) ==
    IF tt.err # NoErr THEN [err |-> tt.err, scan |-> NoScan]
    ELSE IF tt.tag = None \/ tt.base = None
         THEN [err |-> "AttributeError", scan |-> NoScan]
    ELSE [err |-> NoErr,
          scan |-> [scanned |-> TRUE, containers |-> <<tt.tag, tt.base, Body>>,
                    found |-> <<>>]]

\* get_article_text reads self.top_tag at copy.copy(self.top_tag)
TextScan(r) ==
    IF r.top = None \/ (r.err # NoErr /\ r.copy = <<>>) THEN NoScan
    ELSE [scanned |-> TRUE, containers |-> <<r.top>>,
          found |-> [i \in 1..Len(r.paragraphs) |-> r.paragraphs[i].tag]]

InitCalls ==
    /\ \E k \in 0..MaxContent : \E pv \in Shapes(k) :
           \E ks \in [ContentIds(k) -> CallKinds] :
               /\ WellFormed(pv, k, ks)
               /\ soup = GetLinkdensityTree(BuildSoup(pv, k, ks))
    /\ config = DefaultConfig
    /\ base_tag = None
    /\ top_tag = None
    /\ article_copy = <<>>
    /\ article_text = <<>>
    /\ inline_links_list = <<>>
    /\ last_call = NoCall
    /\ pc = "ready"
    /\ err = NoErr
    /\ IdleBut({"doc", "text"})

CallsFrame ==
    /\ UNCHANGED <<pc, config>>
    /\ UNCHANGED <<urlVars, parseVars, keywordVars, ogVars, titleVars>>
    /\ UNCHANGED <<ancestorVars, pictureVars, authorVars, jsonLdVars, timestampVars, cleanVars>>

ScanBaseTag(op, r) ==
    /\ pc = "ready"
    /\ last_call.n < MaxCalls
    /\ base_tag' = r.base
    /\ err' = r.err
    /\ last_call' = CallOf(op, r.scan)
    /\ UNCHANGED <<soup, top_tag, article_copy, article_text, inline_links_list>>
    /\ CallsFrame

\* ArticleExtractor.get_pictures()
CallGetPictures ==
    ScanBaseTag("get_pictures",
                BaseScan(soup, base_tag, EnsureBaseTag(soup, base_tag, config),
                         PICTURE_SCANS))

\* ArticleExtractor.get_assets()
CallGetAssets ==
    ScanBaseTag("get_assets",
                BaseScan(soup, base_tag, EnsureBaseTag(soup, base_tag, config),
                         ASSET_SCANS))

\* ArticleExtractor.get_documents()
CallGetDocuments ==
    ScanBaseTag("get_documents",
                BaseScan(soup, base_tag, EnsureBaseTag(soup, base_tag, config),
                         DOCUMENT_SCANS))

AuthorsStep(tt, r) ==
    /\ base_tag' = tt.base
    /\ top_tag' = tt.tag
    /\ err' = r.err
    /\ last_call' = CallOf("extract_authors", r.scan)

\* ArticleExtractor.extract_authors()
CallExtractAuthors ==
    /\ pc = "ready"
    /\ last_call.n < MaxCalls
    /\ AuthorsStep(AuthorsTags(soup, base_tag, top_tag, config,
                               EnsureBaseTag(soup, base_tag, config)),
                   AuthorsScan(AuthorsTags(soup, base_tag, top_tag, config,
                                           EnsureBaseTag(soup, base_tag, config))))
    /\ UNCHANGED <<soup, article_copy, article_text, inline_links_list>>
    /\ CallsFrame

TextStep(r) ==
    /\ ArticleTextStep(r)
    /\ last_call' = CallOf("get_article_text", TextScan(r))

\* ArticleExtractor.get_article_text()
CallGetArticleText ==
    /\ pc = "ready"
    /\ last_call.n < MaxCalls
    /\ TextStep(GetArticleTextResult(soup, base_tag, top_tag, config, inline_links_list))
    /\ CallsFrame

NextCalls ==
    \/ CallGetPictures
    \/ CallGetAssets
    \/ CallGetDocuments
    \/ CallExtractAuthors
    \/ CallGetArticleText

SpecCalls == InitCalls /\ [][NextCalls]_vars

-----------------------------------------------------------------------------
(* Properties of the calls *)

\* the containers a call scans, read from the fields of the extractor
ContainersOf(op) ==
    IF op = "extract_authors" THEN <<top_tag, base_tag, Body>>
    ELSE IF op = "get_article_text" THEN <<top_tag>>
    ELSE <<base_tag>>

\* the call has scanned the tags the fields hold, and they are tags of the
\* document
ScannedSetTags ==
    /\ last_call.containers = ContainersOf(last_call.op)
    /\ \A i \in 1..Len(last_call.containers) : IsTag(soup, last_call.containers[i])

\* a tag that is set stays as it is
TagsKept ==
    /\ base_tag # None => base_tag' = base_tag
    /\ top_tag # None => top_tag' = top_tag

\* C30: in any sequence of calls of get_pictures, get_assets, get_documents,
\* extract_authors and get_article_text on an extractor over a cleaned and
\* annotated document, a call that scans for assets or authors scans the
\* base_tag that is set by then, a call that extracts authors or body text
\* reads the top_tag that is set by then, and no call changes a base_tag or a
\* top_tag that is set.
C30_TagsSetBeforeUseAndKept ==
    /\ [](last_call.scanned => ScannedSetTags)
    /\ [][TagsKept]_vars

\* three different methods were called, the first found both tags unset, the
\* last is get_article_text, which found them set and collected text below a
\* top tag that is not the base tag
C30_Witness ==
    /\ last_call.n = 3
    /\ last_call.called = {"get_pictures", "extract_authors", "get_article_text"}
    /\ last_call.op = "get_article_text"
    /\ last_call.scanned
    /\ article_text # <<>>
    /\ top_tag # None
    /\ base_tag # None
    /\ top_tag # base_tag
    /\ FindAll(soup, base_tag, {"img"}) # <<>>

====
